---- MODULE Spec2Model ----
(***************************************************************************)
(* A model of the core of provotum/node-rs: the block DAG (Chain), the     *)
(* heaviest-block walker, the CliqueProtocol consensus driver and the      *)
(* minter loop of the peer node.                                           *)
(*                                                                         *)
(* Identifiers are SHA-1 hex digests in the program.  They are modelled as *)
(* tuples: a digest of some content is the tuple <<"sha1", content...>>    *)
(* (an injective encoding of what was hashed), an identifier a peer chose  *)
(* freely is a one-element tuple such as <<"1">>, and the empty string is  *)
(* the empty tuple.                                                        *)
(***************************************************************************)
EXTENDS Integers, Sequences, FiniteSets, Bags, TLC

VARIABLES
    chain,          \* CliqueProtocol.chain
    transactions,   \* CliqueProtocol.transactions, the transaction buffer
    genesis,        \* CliqueProtocol.genesis (clique part) with signer_index/signer_count
    now,            \* wall clock, seconds since the epoch
    poisoned,       \* the protocol mutex was poisoned by a panic under the lock
    pc,             \* position of the minter thread in its loop
    is_leader,      \* minter local
    is_co_leader,   \* minter local
    current_block,  \* minter local: the candidate block
    last,           \* the last protocol call, its argument and what it returned
    thread,         \* Node: the position and the locals of each thread
    protocol_mutex, \* Node.protocol: the thread that holds the mutex, or "free"
    peers_mutex,    \* Node.peers: the thread that holds the mutex, "free" or "poisoned"
    silent,         \* the peers that accepted a connection and will never reply
    sealers         \* the network: every sealer of the genesis with its protocol and minter

node_vars == <<thread, protocol_mutex, peers_mutex, silent>>

vars == <<chain, transactions, genesis, now, poisoned, pc, is_leader, is_co_leader,
          current_block, last, node_vars, sealers>>

(***************************************************************************)
(* Bounds of the model.                                                    *)
(***************************************************************************)
MaxBlocks == 2
MaxTime == 1
MaxSigners == 3
MaxSignerLimit == 2
MaxRemoteHeight == 2

(***************************************************************************)
(* Values.                                                                 *)
(***************************************************************************)
EmptyString == <<>>

Sha1(content) == <<"sha1">> \o content

NoData == [voter_idx |-> 0, cipher_text |-> "none", membership_ok |-> TRUE, cai_ok |-> TRUE]

new_voting_opened ==
    [identifier |-> Sha1(<<"TransactionType", "VoteOpened">>), trx_type |-> "VoteOpened", data |-> NoData]

new_voting_closed ==
    [identifier |-> Sha1(<<"TransactionType", "VoteClosed">>), trx_type |-> "VoteClosed", data |-> NoData]

new_vote(voter_idx, cipher_text, membership_ok, cai_ok) ==
    LET trx_data == [voter_idx |-> voter_idx, cipher_text |-> cipher_text,
                     membership_ok |-> membership_ok, cai_ok |-> cai_ok]
    IN  [identifier |-> Sha1(<<trx_data>>), trx_type |-> "Vote", data |-> trx_data]

NoTally == [total_votes |-> 0, cipher_text |-> EmptyBag]

NoTransaction == [identifier |-> EmptyString, trx_type |-> "None", data |-> NoData]

\* Block::new: the identifier is the digest of the block content, the
\* timestamp is the wall clock at construction.
BlockNew(previous_hash, trxs, clock) ==
    [identifier |-> Sha1(<<previous_hash, clock, trxs>>),
     parent |-> previous_hash, timestamp |-> clock, transactions |-> trxs]

NoBlock == [identifier |-> EmptyString, parent |-> EmptyString, timestamp |-> 0,
            transactions |-> <<>>]

Contains(seq, e) == \E i \in 1..Len(seq) : seq[i] = e

(***************************************************************************)
(* Chain.                                                                  *)
(***************************************************************************)
ChainNew(genesis_hash, clock) ==
    LET genesis_block == BlockNew(EmptyString, <<>>, clock)
    IN  [genesis_configuration_hash |-> genesis_hash,
         genesis_identifier_hash |-> genesis_block.identifier,
         blocks |-> (genesis_block.identifier :> genesis_block),
         adjacent_matrix |-> (genesis_block.identifier :> <<>>)]

\* add_block with the push outside the contains check
AddBlockAlwaysPush(c, block) ==
    LET parent_known == block.parent \in DOMAIN c.adjacent_matrix
        is_contained == parent_known
                        /\ Contains(c.adjacent_matrix[block.parent], block.identifier)
        pushed == IF parent_known
                  THEN [c.adjacent_matrix EXCEPT ![block.parent] = Append(@, block.identifier)]
                  ELSE c.adjacent_matrix
        with_entry == IF block.identifier \in DOMAIN pushed
                      THEN pushed
                      ELSE (block.identifier :> <<>>) @@ pushed
        inserted == (block.identifier :> block) @@ c.blocks
    IN  IF is_contained
        THEN [chain |-> [c EXCEPT !.adjacent_matrix = pushed], result |-> "false"]
        ELSE [chain |-> [c EXCEPT !.adjacent_matrix = with_entry, !.blocks = inserted],
              result |-> IF block.identifier \in DOMAIN c.blocks THEN "panic" ELSE "true"]

\* add_block without the adjacency entry for the new block
AddBlockNoEntry(c, block) ==
    LET parent_known == block.parent \in DOMAIN c.adjacent_matrix
        is_contained == parent_known
                        /\ Contains(c.adjacent_matrix[block.parent], block.identifier)
        pushed == IF parent_known /\ ~is_contained
                  THEN [c.adjacent_matrix EXCEPT ![block.parent] = Append(@, block.identifier)]
                  ELSE c.adjacent_matrix
        inserted == (block.identifier :> block) @@ c.blocks
    IN  IF is_contained
        THEN [chain |-> c, result |-> "false"]
        ELSE [chain |-> [c EXCEPT !.adjacent_matrix = pushed, !.blocks = inserted],
              result |-> IF block.identifier \in DOMAIN c.blocks THEN "panic" ELSE "true"]

\* add_block without the sanity check on the previous block
AddBlockNoPanic(c, block) ==
    LET parent_known == block.parent \in DOMAIN c.adjacent_matrix
        is_contained == parent_known
                        /\ Contains(c.adjacent_matrix[block.parent], block.identifier)
        pushed == IF parent_known /\ ~is_contained
                  THEN [c.adjacent_matrix EXCEPT ![block.parent] = Append(@, block.identifier)]
                  ELSE c.adjacent_matrix
        with_entry == IF block.identifier \in DOMAIN pushed
                      THEN pushed
                      ELSE (block.identifier :> <<>>) @@ pushed
        inserted == (block.identifier :> block) @@ c.blocks
    IN  IF is_contained
        THEN [chain |-> c, result |-> "false"]
        ELSE [chain |-> [c EXCEPT !.adjacent_matrix = with_entry, !.blocks = inserted],
              result |-> "true"]

\* Chain::add_block.  The result is the chain the call leaves behind and what
\* the call did: "true", "false", or "panic" (Double insert).
AddBlock(c, block) ==
    LET parent_known == block.parent \in DOMAIN c.adjacent_matrix
        is_contained == parent_known
                        /\ Contains(c.adjacent_matrix[block.parent], block.identifier)
        pushed == IF parent_known /\ ~is_contained
                  THEN [c.adjacent_matrix EXCEPT ![block.parent] = Append(@, block.identifier)]
                  ELSE c.adjacent_matrix
        with_entry == IF block.identifier \in DOMAIN pushed
                      THEN pushed
                      ELSE (block.identifier :> <<>>) @@ pushed
        inserted == (block.identifier :> block) @@ c.blocks
    IN  IF is_contained
        THEN [chain |-> c, result |-> "false"]
        ELSE [chain |-> [c EXCEPT !.adjacent_matrix = with_entry, !.blocks = inserted],
              result |-> IF block.identifier \in DOMAIN c.blocks THEN "panic" ELSE "true"]

(***************************************************************************)
(* HeaviestBlockWalker: depth-first search for the deepest block.          *)
(***************************************************************************)
RECURSIVE TraverseLevel(_, _, _)
RECURSIVE TraverseChildren(_, _, _, _, _)

\* the loop over the children with >= in place of >: the last deepest block wins
RECURSIVE TraverseChildrenLastWins(_, _, _, _, _)
TraverseChildrenLastWins(children, i, child_level, most_deepest_block, c) ==
    IF i > Len(children)
    THEN most_deepest_block
    ELSE LET result == TraverseLevel(child_level, children[i], c)
         IN  TraverseChildrenLastWins(children, i + 1, child_level,
                                      IF result[1] >= most_deepest_block[1]
                                      THEN result ELSE most_deepest_block,
                                      c)

\* the loop over the children of one block, from child number i on
TraverseChildren(children, i, child_level, most_deepest_block, c) ==
    IF i > Len(children)
    THEN most_deepest_block
    ELSE LET result == TraverseLevel(child_level, children[i], c)
         IN  TraverseChildren(children, i + 1, child_level,
                              IF result[1] > most_deepest_block[1]
                              THEN result ELSE most_deepest_block,
                              c)

TraverseLevel(parent_level, parent_identifier, c) ==
    TraverseChildren(c.adjacent_matrix[parent_identifier], 1, parent_level + 1,
                     <<parent_level, parent_identifier>>, c)

\* HeaviestBlockWalker::walk_chain with the HeaviestBlockVisitor: (height, identifier)
WalkHeaviest(c) ==
    TraverseChildren(c.adjacent_matrix[c.genesis_identifier_hash], 1, 1,
                     <<0, c.genesis_identifier_hash>>, c)

GetCurrentBlock(c) ==
    LET visited == WalkHeaviest(c)
    IN  <<visited[1], c.blocks[visited[2]]>>

GetCurrentBlockNumber(c) == GetCurrentBlock(c)[1]

GetCurrentBlockTimestamp(c) == GetCurrentBlock(c)[2].timestamp

(***************************************************************************)
(* Transaction.                                                            *)
(***************************************************************************)
\* is_valid without the cast-as-intended proof
IsValidMembershipOnly(transaction, g) ==
    IF transaction.trx_type # "Vote"
    THEN TRUE
    ELSE IF transaction.data.voter_idx >= g.voters
         THEN FALSE
         ELSE transaction.data.membership_ok

\* Transaction::is_valid; the two proof verifiers are opaque, a transaction
\* carries whether its proofs verify.  image_sets has genesis.voters entries.
IsValid(transaction, g) ==
    IF transaction.trx_type # "Vote"
    THEN TRUE
    ELSE IF transaction.data.voter_idx >= g.voters
         THEN FALSE
         ELSE transaction.data.membership_ok /\ transaction.data.cai_ok

\* impl PartialEq for Transaction: equality is equality of the identifiers
ContainsTransaction(buffer, transaction) ==
    \E i \in 1..Len(buffer) : buffer[i].identifier = transaction.identifier

(***************************************************************************)
(* SumCipherTextVisitor and LongestPathWalker.  A cipher text is the bag   *)
(* of the cipher texts that were added homomorphically; the encryption of  *)
(* zero the visitor starts with is the bag holding "zero".                 *)
(***************************************************************************)
ZeroCipherText == SetToBag({"zero"})

\* CipherText::operate
Operate(sum_cipher_text, cipher_text) == sum_cipher_text (+) SetToBag({cipher_text})

\* SumCipherTextVisitor::new with is_voting_closed false
SumCipherTextVisitorNewNotClosed ==
    [sum_cipher_text |-> ZeroCipherText, total_votes |-> 0,
     zero_cipher_text |-> ZeroCipherText, is_voting_opened |-> FALSE,
     is_voting_closed |-> FALSE, traversed_vote_idx |-> {}]

SumCipherTextVisitorNew ==
    [sum_cipher_text |-> ZeroCipherText, total_votes |-> 0,
     zero_cipher_text |-> ZeroCipherText, is_voting_opened |-> FALSE,
     is_voting_closed |-> TRUE, traversed_vote_idx |-> {}]

\* the body of the loop of visit_block without the insert into traversed_vote_idx
VisitTransactionNoInsert(visitor, transaction) ==
    CASE transaction.trx_type = "VoteOpened" ->
            [visitor EXCEPT !.is_voting_opened = TRUE]
      [] transaction.trx_type = "VoteClosed" ->
            [visitor EXCEPT !.is_voting_closed = TRUE]
      [] OTHER ->
            IF ~visitor.is_voting_closed
            THEN visitor
            ELSE [visitor EXCEPT
                    !.sum_cipher_text = Operate(@, transaction.data.cipher_text),
                    !.total_votes = @ + 1]

\* the body of the loop of visit_block
VisitTransaction(visitor, transaction) ==
    CASE transaction.trx_type = "VoteOpened" ->
            [visitor EXCEPT !.is_voting_opened = TRUE]
      [] transaction.trx_type = "VoteClosed" ->
            [visitor EXCEPT !.is_voting_closed = TRUE]
      [] OTHER ->
            IF ~visitor.is_voting_closed
            THEN visitor
            ELSE IF transaction.data.voter_idx \in visitor.traversed_vote_idx
                 THEN visitor
                 ELSE [visitor EXCEPT
                         !.sum_cipher_text = Operate(@, transaction.data.cipher_text),
                         !.total_votes = @ + 1,
                         !.traversed_vote_idx = @ \cup {transaction.data.voter_idx}]

\* SumCipherTextVisitor::visit_block: the transactions of the block in the
\* order in which the block stores them, from transaction number i on
RECURSIVE VisitBlock(_, _, _)
VisitBlock(visitor, block, i) ==
    IF i > Len(block.transactions)
    THEN visitor
    ELSE VisitBlock(VisitTransaction(visitor, block.transactions[i]), block, i + 1)

\* get_votes without the test of is_voting_opened
GetVotesAlways(visitor) ==
    [total_votes |-> visitor.total_votes, cipher_text |-> visitor.sum_cipher_text]

GetVotes(visitor) ==
    IF visitor.is_voting_opened
    THEN [total_votes |-> visitor.total_votes, cipher_text |-> visitor.sum_cipher_text]
    ELSE [total_votes |-> 0, cipher_text |-> visitor.zero_cipher_text]

\* FindTransactionVisitor::new; found_transaction None is NoTransaction
FindTransactionVisitorNew(trx_identifier) ==
    [transaction_identifier |-> trx_identifier, found_transaction |-> NoTransaction]

\* FindTransactionVisitor::visit_block: the loop over the transactions ends
\* with a break in its first round
FindTransactionVisitBlock(visitor, block) ==
    IF visitor.found_transaction # NoTransaction
    THEN visitor
    ELSE IF /\ Len(block.transactions) > 0
            /\ visitor.transaction_identifier = block.transactions[1].identifier
         THEN [visitor EXCEPT !.found_transaction = block.transactions[1]]
         ELSE visitor

GetFoundTransaction(visitor) == visitor.found_transaction

\* ChainVisitor::visit_block of the visitor at hand
ChainVisitorVisitBlock(visitor, block) ==
    IF "found_transaction" \in DOMAIN visitor
    THEN FindTransactionVisitBlock(visitor, block)
    ELSE VisitBlock(visitor, block, 1)

\* LongestPathWalker::traverse_bottom_up: genesis is not visited
RECURSIVE TraverseBottomUp(_, _, _)
TraverseBottomUp(child_block, c, visitor) ==
    IF child_block.parent = EmptyString
    THEN visitor
    ELSE TraverseBottomUp(c.blocks[child_block.parent], c,
                          ChainVisitorVisitBlock(visitor, child_block))

\* LongestPathWalker::walk_chain with the SumCipherTextVisitor; the search for
\* the deepest block is the one of the HeaviestBlockWalker
WalkLongestPath(c, visitor) ==
    LET current_deepest_block == TraverseChildren(c.adjacent_matrix[c.genesis_identifier_hash],
                                                  1, 1, <<0, c.genesis_identifier_hash>>, c)
    IN  TraverseBottomUp(c.blocks[current_deepest_block[2]], c, visitor)

\* LongestPathWalker::traverse_bottom_up seen from the visitor: the calls of
\* visit_block it makes, each with its height and the block it passes
RECURSIVE TraverseBottomUpCalls(_, _, _)
TraverseBottomUpCalls(child_level, child_block, c) ==
    IF child_block.parent = EmptyString
    THEN <<>>
    ELSE <<[height |-> child_level, block |-> child_block]>>
         \o TraverseBottomUpCalls(child_level - 1, c.blocks[child_block.parent], c)

\* walk_chain that visits the deepest block only, as the HeaviestBlockWalker does
WalkChainCallsLeafOnly(c) ==
    LET current_deepest_block == TraverseChildren(c.adjacent_matrix[c.genesis_identifier_hash],
                                                  1, 1, <<0, c.genesis_identifier_hash>>, c)
    IN  IF current_deepest_block[1] = 0
        THEN <<>>
        ELSE <<[height |-> current_deepest_block[1],
                block |-> c.blocks[current_deepest_block[2]]]>>

\* LongestPathWalker::walk_chain seen from the visitor
WalkChainCalls(c) ==
    LET current_deepest_block == TraverseChildren(c.adjacent_matrix[c.genesis_identifier_hash],
                                                  1, 1, <<0, c.genesis_identifier_hash>>, c)
    IN  TraverseBottomUpCalls(current_deepest_block[1], c.blocks[current_deepest_block[2]], c)

(***************************************************************************)
(* CliqueProtocol.                                                         *)
(***************************************************************************)
\* the digest of the genesis configuration (CliqueProtocol::new)
GenesisHash(g) == Sha1(<<g.block_period, g.signer_limit, g.signer_count, g.voters>>)

\* replace_chain that also takes a chain of equal height
ReplaceChainOnEqual(own, other) ==
    LET own_chain_height == GetCurrentBlockNumber(own)
        other_chain_height == GetCurrentBlockNumber(other)
    IN  IF other.genesis_configuration_hash # own.genesis_configuration_hash
        THEN own
        ELSE IF own_chain_height <= other_chain_height THEN other ELSE own

\* replace_chain without the comparison of the heights
ReplaceChainAlways(own, other) ==
    IF other.genesis_configuration_hash # own.genesis_configuration_hash
    THEN own
    ELSE other

ReplaceChain(own, other) ==
    LET own_chain_height == GetCurrentBlockNumber(own)
        other_chain_height == GetCurrentBlockNumber(other)
    IN  IF other.genesis_configuration_hash # own.genesis_configuration_hash
        THEN own
        ELSE IF own_chain_height < other_chain_height THEN other ELSE own

\* is_leader on the number of blocks instead of the height
IsLeaderPlusOne(c, signer_index, signer_count) ==
    LET current_block_number == GetCurrentBlockNumber(c) + 1
        expected_leader_index == current_block_number % signer_count
    IN  signer_index = expected_leader_index

IsLeader(c, signer_index, signer_count) ==
    LET current_block_number == GetCurrentBlockNumber(c)
        expected_leader_index == current_block_number % signer_count
    IN  signer_index = expected_leader_index

\* is_co_leader with a window that starts at the leader
IsCoLeaderFromLeader(c, signer_index, signer_count, signer_limit) ==
    LET current_block_number == GetCurrentBlockNumber(c)
        lower_leader_index_bound == current_block_number % signer_count
        upper_leader_index_bound == (current_block_number + signer_limit) % signer_count
    IN  (signer_index >= lower_leader_index_bound)
        /\ (signer_index <= upper_leader_index_bound)

IsCoLeader(c, signer_index, signer_count, signer_limit) ==
    LET current_block_number == GetCurrentBlockNumber(c)
        lower_leader_index_bound == (current_block_number % signer_count) + 1
        upper_leader_index_bound == (current_block_number + signer_limit) % signer_count
    IN  (signer_index >= lower_leader_index_bound)
        /\ (signer_index <= upper_leader_index_bound)

\* on_transaction_receive without the contains check
OnTransactionReceiveNoContains(buffer, c, g, transaction) ==
    IF ~IsValid(transaction, g)
    THEN buffer
    ELSE IF IsLeader(c, g.signer_index, g.signer_count)
            \/ IsCoLeader(c, g.signer_index, g.signer_count, g.signer_limit)
         THEN Append(buffer, transaction)
         ELSE buffer

\* on_transaction_receive that buffers for the leader only
OnTransactionReceiveLeaderOnly(buffer, c, g, transaction) ==
    IF ~IsValid(transaction, g)
    THEN buffer
    ELSE IF ContainsTransaction(buffer, transaction)
         THEN buffer
         ELSE IF IsLeader(c, g.signer_index, g.signer_count)
              THEN Append(buffer, transaction)
              ELSE buffer

\* on_transaction_receive: the buffer after the call
OnTransactionReceive(buffer, c, g, transaction) ==
    IF ~IsValid(transaction, g)
    THEN buffer
    ELSE IF ContainsTransaction(buffer, transaction)
         THEN buffer
         ELSE IF IsLeader(c, g.signer_index, g.signer_count)
                 \/ IsCoLeader(c, g.signer_index, g.signer_count, g.signer_limit)
              THEN Append(buffer, transaction)
              ELSE buffer

\* calculate_result: the Tally
CalculateResult(c) == GetVotes(WalkLongestPath(c, SumCipherTextVisitorNew))

FindTransaction(c, trx_identifier) ==
    GetFoundTransaction(WalkLongestPath(c, FindTransactionVisitorNew(trx_identifier)))

IsBlockPeriodOverStrictlyAfter(c, g, clock) ==
    LET next_run == g.block_period + GetCurrentBlockTimestamp(c)
    IN  clock > next_run

IsBlockPeriodOver(c, g, clock) ==
    LET next_run == g.block_period + GetCurrentBlockTimestamp(c)
    IN  ~(clock < next_run)

\* create_current_block_and_reset_transaction_buffer on top of genesis
CreateCurrentBlockOnGenesis(c, buffer, clock) ==
    BlockNew(c.genesis_identifier_hash, buffer, clock)

\* create_current_block_and_reset_transaction_buffer: the block it returns
CreateCurrentBlock(c, buffer, clock) ==
    BlockNew(GetCurrentBlock(c)[2].identifier, buffer, clock)

\* sign without the contains_key check and without the test of is_added
SignAlwaysSome(c, block) ==
    LET r == AddBlock(c, block)
    IN  [chain |-> r.chain,
         result |-> IF r.result = "panic" THEN "panic" ELSE "Some",
         added |-> r.result]

\* CliqueProtocol::sign: the chain after the call and what it returned
Sign(c, block) ==
    IF block.identifier \in DOMAIN c.blocks
    THEN [chain |-> c, result |-> "None", added |-> "none"]
    ELSE LET r == AddBlock(c, block)
         IN  [chain |-> r.chain,
              result |-> CASE r.result = "true" -> "Some"
                           [] r.result = "false" -> "None"
                           [] OTHER -> "panic",
              added |-> r.result]

\* handle(BlockPayload) without the retain loop
RetainNothing(buffer, block) == buffer

\* the retain loop of handle(BlockPayload): drop every buffered transaction
\* whose identifier occurs in the block
Retain(buffer, block) ==
    SelectSeq(buffer, LAMBDA trx :
        ~(\E i \in 1..Len(block.transactions) :
            block.transactions[i].identifier = trx.identifier))

(***************************************************************************)
(* Message and the two handlers of the ProtocolHandler.  A message is a    *)
(* record with its variant in kind and the payload of the variant; Nothing *)
(* stands for the None of an Option.                                       *)
(***************************************************************************)
Nothing == [kind |-> "nothing"]

Message(kind) == [kind |-> kind]

TransactionPayload(transaction) == [kind |-> "TransactionPayload", transaction |-> transaction]

TransactionAccept(identifier) == [kind |-> "TransactionAccept", identifier |-> identifier]

BlockRequest(identifier) == [kind |-> "BlockRequest", identifier |-> identifier]

BlockPayload(block) == [kind |-> "BlockPayload", block |-> block]

ChainResponse(c) == [kind |-> "ChainResponse", chain |-> c]

RequestTallyPayload(tally) == [kind |-> "RequestTallyPayload", tally |-> tally]

FindTransactionMessage(identifier) == [kind |-> "FindTransaction", identifier |-> identifier]

FindTransactionResponse(found) == [kind |-> "FindTransactionResponse", found |-> found]

\* handle that replies None to every message and does nothing
HandleRepliesNone(c, buffer, g, message) ==
    [chain |-> c, transactions |-> buffer, reply |-> Message("None"), result |-> "ok"]

\* ProtocolHandler::handle: the chain and the buffer after the call, the reply,
\* and "panic" when the call panicked
Handle(c, buffer, g, message) ==
    LET same(reply) == [chain |-> c, transactions |-> buffer, reply |-> reply,
                        result |-> "ok"]
        received(transaction, reply) ==
            [chain |-> c, transactions |-> OnTransactionReceive(buffer, c, g, transaction),
             reply |-> reply, result |-> "ok"]
    IN  CASE message.kind = "None" -> same(Message("None"))
          [] message.kind = "Ping" -> same(Message("Pong"))
          [] message.kind = "Pong" -> same(Message("None"))
          [] message.kind = "TransactionPayload" ->
                received(message.transaction, TransactionAccept(message.transaction.identifier))
          [] message.kind = "TransactionAccept" -> same(Message("None"))
          [] message.kind = "BlockRequest" ->
                [chain |-> c, transactions |-> buffer, reply |-> Nothing, result |-> "panic"]
          [] message.kind = "BlockPayload" ->
                LET r == AddBlock(c, message.block)
                IN  [chain |-> r.chain, transactions |-> Retain(buffer, message.block),
                     reply |-> CASE r.result = "true" -> Message("BlockAccept")
                                 [] r.result = "false" -> Message("BlockDuplicated")
                                 [] OTHER -> Nothing,
                     result |-> IF r.result = "panic" THEN "panic" ELSE "ok"]
          [] message.kind = "BlockAccept" -> same(Message("None"))
          [] message.kind = "BlockDuplicated" -> same(Message("None"))
          [] message.kind = "ChainRequest" -> same(ChainResponse(c))
          [] message.kind = "ChainResponse" ->
                [chain |-> ReplaceChain(c, message.chain), transactions |-> buffer,
                 reply |-> Message("ChainAccept"), result |-> "ok"]
          [] message.kind = "ChainAccept" -> same(Message("None"))
          [] message.kind = "OpenVote" ->
                received(new_voting_opened, Message("OpenVoteAccept"))
          [] message.kind = "OpenVoteAccept" -> same(Message("None"))
          [] message.kind = "CloseVote" ->
                received(new_voting_closed, Message("CloseVoteAccept"))
          [] message.kind = "CloseVoteAccept" -> same(Message("None"))
          [] message.kind = "RequestTally" -> same(Message("None"))
          [] message.kind = "RequestTallyPayload" -> same(Message("None"))
          [] message.kind = "FindTransaction" ->
                same(FindTransactionResponse(FindTransaction(c, message.identifier)))
          [] message.kind = "FindTransactionResponse" -> same(Message("None"))

\* handle_rpc that answers a peer message as handle does
HandleRpcAsHandle(c, buffer, g, message) ==
    LET r == Handle(c, buffer, g, message)
    IN  [chain |-> r.chain, transactions |-> r.transactions, response |-> r.reply,
         broadcast |-> Message("None")]

\* ProtocolHandler::handle_rpc: the chain and the buffer after the call, and
\* the pair of the response and the message to broadcast, both Nothing for None
HandleRpc(c, buffer, g, message) ==
    LET none == [chain |-> c, transactions |-> buffer, response |-> Nothing,
                 broadcast |-> Nothing]
        received(transaction, response, broadcast) ==
            [chain |-> c, transactions |-> OnTransactionReceive(buffer, c, g, transaction),
             response |-> response, broadcast |-> broadcast]
    IN  CASE message.kind = "TransactionPayload" ->
                received(message.transaction,
                         TransactionAccept(message.transaction.identifier),
                         TransactionPayload(message.transaction))
          [] message.kind = "ChainRequest" ->
                [chain |-> c, transactions |-> buffer, response |-> ChainResponse(c),
                 broadcast |-> Message("None")]
          [] message.kind = "OpenVote" ->
                received(new_voting_opened, Message("OpenVoteAccept"), Message("OpenVote"))
          [] message.kind = "CloseVote" ->
                received(new_voting_closed, Message("CloseVoteAccept"), Message("CloseVote"))
          [] message.kind = "RequestTally" ->
                [chain |-> c, transactions |-> buffer,
                 response |-> RequestTallyPayload(CalculateResult(c)),
                 broadcast |-> Message("None")]
          [] message.kind \in {"None", "Ping", "Pong", "TransactionAccept", "BlockRequest",
                               "BlockPayload", "BlockAccept", "BlockDuplicated",
                               "ChainResponse", "ChainAccept", "OpenVoteAccept",
                               "CloseVoteAccept", "RequestTallyPayload", "FindTransaction",
                               "FindTransactionResponse"} -> none

(***************************************************************************)
(* What the environment can send.                                          *)
(***************************************************************************)
\* identifiers a peer can put on a block it builds by hand
PeerIdentifiers == {<<"1">>, <<"2">>}

\* blocks with a freely chosen identifier and parent (the parent may be a block
\* the receiver never stored), two of them with one identifier and one parent
\* but different content, and the block a peer minted with Block::new on top of
\* the heaviest block of this chain
InboundBlocks ==
    {[identifier |-> i, parent |-> p, timestamp |-> 1, transactions |-> <<>>] :
        i \in PeerIdentifiers,
        p \in {<<"1">>, chain.genesis_identifier_hash}}
    \cup {[identifier |-> <<"1">>, parent |-> chain.genesis_identifier_hash,
           timestamp |-> 1, transactions |-> <<new_voting_opened>>]}
    \cup {BlockNew(GetCurrentBlock(chain)[2].identifier, <<>>, now)}

InboundTransactions ==
    {new_voting_opened,
     new_vote(0, "c2", FALSE, TRUE)}

\* the chain of a remote sealer that started at start and minted k blocks
RECURSIVE RemoteChain(_, _, _)
RemoteChain(genesis_hash, start, k) ==
    IF k = 0
    THEN ChainNew(genesis_hash, start)
    ELSE LET c == RemoteChain(genesis_hash, start, k - 1)
         IN  AddBlock(c, BlockNew(GetCurrentBlock(c)[2].identifier, <<>>, start + k)).chain

OtherGenesisHash == Sha1(<<"other genesis configuration">>)

\* the genesis of a network of three sealers (the example of lib.rs), seen by
\* the sealer at index 1: leader at heights 1, 4, .. and co-leader at 0, 3, ..
Configurations ==
    {[block_period |-> 1, signer_limit |-> l, signer_count |-> n, signer_index |-> i,
      voters |-> 1] :
        l \in {1}, n \in {3}, i \in {1}}

\* the chains a ChainResponse can carry: of a sealer of the same genesis that
\* minted up to MaxRemoteHeight blocks, and of a sealer of another genesis
RemoteChains ==
    UNION {{RemoteChain(GenesisHash(g), 0, k) : k \in 1..MaxRemoteHeight} :
              g \in Configurations}
    \cup {RemoteChain(OtherGenesisHash, 0, MaxRemoteHeight)}

(***************************************************************************)
(* The state machine.                                                      *)
(***************************************************************************)
NoChain == ChainNew(EmptyString, 0)

Call(op, block, other, added, reply) ==
    [op |-> op, block |-> block, other |-> other, transaction |-> NoTransaction,
     identifier |-> EmptyString, buffer_before |-> <<>>, tally |-> NoTally,
     message |-> Nothing, response |-> Nothing, broadcast |-> Nothing,
     visits |-> <<>>, added |-> added, reply |-> reply,
     parent_known |-> block.parent \in DOMAIN chain.adjacent_matrix,
     id_known |-> block.identifier \in DOMAIN chain.blocks,
     same_value |-> block.identifier \in DOMAIN chain.blocks
                    /\ chain.blocks[block.identifier] = block,
     is_child |-> block.parent \in DOMAIN chain.adjacent_matrix
                  /\ Contains(chain.adjacent_matrix[block.parent], block.identifier),
     height_before |-> GetCurrentBlockNumber(chain)]

\* the sealers of the genesis, by their index in its sealer list
SealerIndices == 0..((CHOOSE g \in Configurations : TRUE).signer_count - 1)

\* a sealer whose node was not started yet
SealerOff ==
    [state |-> "off", chain |-> NoChain, transactions |-> <<>>, pc |-> "sleep",
     is_leader |-> FALSE, is_co_leader |-> FALSE, current_block |-> NoBlock, left |-> {}]

\* the threads of a node: the peer listener, the RPC listener and the minter
\* on the thread pool, and the main thread that requests the chain copy
Threads == {"listen", "listen_rpc", "sign", "connect"}

\* the sealer addresses of the genesis, the own address and two others, in the
\* order in which the HashSet of the peers iterates; the set is never changed
Sealers == <<"peer1", "own", "peer2">>

ThreadNew(t) ==
    [pc |-> CASE t = "sign" -> "not started"
              [] t = "connect" -> "start"
              [] OTHER -> "accept",
     next |-> "none", request |-> Nothing, response |-> Nothing, broadcast |-> Nothing,
     left |-> <<>>, peer |-> "none"]

\* the node of one sealer after construction
NodeInit ==
    /\ genesis \in {g \in Configurations : g.signer_index < g.signer_count}
    /\ now = 0
    /\ chain = ChainNew(GenesisHash(genesis), 0)
    /\ transactions = <<>>
    /\ poisoned = FALSE
    /\ pc = "sleep"
    /\ is_leader = FALSE
    /\ is_co_leader = FALSE
    /\ current_block = NoBlock
    /\ last = [op |-> "new", block |-> NoBlock, other |-> NoChain,
               transaction |-> NoTransaction, identifier |-> EmptyString,
               buffer_before |-> <<>>, tally |-> NoTally,
               message |-> Nothing, response |-> Nothing, broadcast |-> Nothing,
               visits |-> <<>>, added |-> "none",
               reply |-> "None", parent_known |-> FALSE, id_known |-> FALSE,
               same_value |-> FALSE, is_child |-> FALSE, height_before |-> 0]
    /\ thread = [t \in Threads |-> ThreadNew(t)]
    /\ protocol_mutex = "free"
    /\ peers_mutex = "free"
    /\ silent = {}

\* the node of one sealer after construction, and no sealer of the network
\* started yet
Init ==
    /\ NodeInit
    /\ sealers = [i \in SealerIndices |-> SealerOff]

\* the wall clock advances (a node whose protocol mutex is poisoned is dead:
\* every thread panics at its next lock().unwrap(), nothing is modelled after)
Tick ==
    /\ ~poisoned
    /\ now < MaxTime
    /\ now' = now + 1
    /\ UNCHANGED node_vars
    /\ UNCHANGED <<chain, transactions, genesis, sealers, poisoned, pc, is_leader, is_co_leader,
                   current_block, last>>

\* handle(Message::BlockPayload(block)) under the protocol lock
HandleBlockPayload ==
    /\ ~poisoned
    /\ Cardinality(DOMAIN chain.blocks) <= MaxBlocks
    /\ \E block \in InboundBlocks :
        LET r == AddBlock(chain, block)
        IN  /\ transactions' = Retain(transactions, block)
            /\ chain' = r.chain
            /\ poisoned' = (r.result = "panic")
            /\ last' = Call("BlockPayload", block, NoChain, r.result,
                            CASE r.result = "true" -> "BlockAccept"
                              [] r.result = "false" -> "BlockDuplicated"
                              [] OTHER -> "panic")
    /\ UNCHANGED node_vars
    /\ UNCHANGED <<genesis, sealers, now, pc, is_leader, is_co_leader, current_block>>

\* handle(Message::ChainResponse(other)) under the protocol lock
HandleChainResponse ==
    /\ ~poisoned
    /\ \E other \in RemoteChains :
        /\ chain' = ReplaceChain(chain, other)
        /\ last' = Call("ChainResponse", NoBlock, other, "none", "ChainAccept")
    /\ UNCHANGED node_vars
    /\ UNCHANGED <<transactions, genesis, sealers, now, poisoned, pc, is_leader, is_co_leader,
                   current_block>>

\* handle(Message::TransactionPayload(transaction)) under the protocol lock
HandleTransactionPayload ==
    /\ ~poisoned
    /\ \E transaction \in InboundTransactions :
        /\ transactions' = OnTransactionReceive(transactions, chain, genesis, transaction)
        /\ last' = Call("TransactionPayload", NoBlock, NoChain, "none", "TransactionAccept")
    /\ UNCHANGED node_vars
    /\ UNCHANGED <<chain, genesis, sealers, now, poisoned, pc, is_leader, is_co_leader,
                   current_block>>

(***************************************************************************)
(* The minter loop (Node::sign), one action per acquisition of the lock.   *)
(***************************************************************************)
MinterIsLeader ==
    /\ ~poisoned
    /\ pc = "sleep"
    /\ is_leader' = IsLeader(chain, genesis.signer_index, genesis.signer_count)
    /\ pc' = "is_co_leader"
    /\ last' = Call("is_leader", NoBlock, NoChain, "none", "None")
    /\ UNCHANGED node_vars
    /\ UNCHANGED <<chain, transactions, genesis, sealers, now, poisoned, is_co_leader, current_block>>

MinterIsCoLeader ==
    /\ ~poisoned
    /\ pc = "is_co_leader"
    /\ is_co_leader' = IsCoLeader(chain, genesis.signer_index, genesis.signer_count,
                                  genesis.signer_limit)
    /\ pc' = IF ~is_leader /\ ~is_co_leader' THEN "reset" ELSE "period"
    /\ last' = Call("is_co_leader", NoBlock, NoChain, "none", "None")
    /\ UNCHANGED node_vars
    /\ UNCHANGED <<chain, transactions, genesis, sealers, now, poisoned, is_leader, current_block>>

MinterResetBuffer ==
    /\ ~poisoned
    /\ pc = "reset"
    /\ transactions' = <<>>
    /\ pc' = "sleep"
    /\ is_leader' = FALSE
    /\ is_co_leader' = FALSE
    /\ last' = Call("reset_transaction_buffer", NoBlock, NoChain, "none", "None")
    /\ UNCHANGED node_vars
    /\ UNCHANGED <<chain, genesis, sealers, now, poisoned, current_block>>

MinterBlockPeriod ==
    /\ ~poisoned
    /\ pc = "period"
    /\ pc' = IF IsBlockPeriodOver(chain, genesis, now) THEN "create" ELSE "sleep"
    /\ is_leader' = FALSE
    /\ is_co_leader' = FALSE
    /\ last' = Call("is_block_period_over", NoBlock, NoChain, "none", "None")
    /\ UNCHANGED node_vars
    /\ UNCHANGED <<chain, transactions, genesis, sealers, now, poisoned, current_block>>

MinterCreateBlock ==
    /\ ~poisoned
    /\ pc = "create"
    /\ Cardinality(DOMAIN chain.blocks) <= MaxBlocks
    /\ current_block' = CreateCurrentBlock(chain, transactions, now)
    /\ transactions' = <<>>
    /\ pc' = "wiggle_check"
    /\ last' = Call("create_current_block", NoBlock, NoChain, "none", "None")
    /\ UNCHANGED node_vars
    /\ UNCHANGED <<chain, genesis, sealers, now, poisoned, is_leader, is_co_leader>>

MinterWiggleCheck ==
    /\ ~poisoned
    /\ pc = "wiggle_check"
    /\ pc' = IF IsCoLeader(chain, genesis.signer_index, genesis.signer_count,
                           genesis.signer_limit)
             THEN "wiggle" ELSE "sign"
    /\ last' = Call("is_co_leader", NoBlock, NoChain, "none", "None")
    /\ UNCHANGED node_vars
    /\ UNCHANGED <<chain, transactions, genesis, sealers, now, poisoned, is_leader, is_co_leader,
                   current_block>>

\* the wiggle sleep, no lock held
MinterWiggle ==
    /\ ~poisoned
    /\ pc = "wiggle"
    /\ pc' = "sign"
    /\ UNCHANGED node_vars
    /\ UNCHANGED <<chain, transactions, genesis, sealers, now, poisoned, is_leader, is_co_leader,
                   current_block, last>>

MinterSign ==
    /\ ~poisoned
    /\ pc = "sign"
    /\ LET r == Sign(chain, current_block)
       IN  /\ chain' = r.chain
           /\ poisoned' = (r.result = "panic")
           /\ last' = Call("sign", current_block, NoChain, r.added, r.result)
    /\ pc' = "sleep"
    /\ current_block' = NoBlock
    /\ UNCHANGED node_vars
    /\ UNCHANGED <<transactions, genesis, sealers, now, is_leader, is_co_leader>>

Next ==
    \/ Tick
    \/ HandleBlockPayload
    \/ HandleChainResponse
    \/ HandleTransactionPayload
    \/ MinterIsLeader
    \/ MinterIsCoLeader
    \/ MinterResetBuffer
    \/ MinterBlockPeriod
    \/ MinterCreateBlock
    \/ MinterWiggleCheck
    \/ MinterWiggle
    \/ MinterSign

Spec == Init /\ [][Next]_vars

(***************************************************************************)
(* The Chain used on its own, as chain_test and chain_walker_test do:      *)
(* blocks built by hand are given to add_block in any order.               *)
(***************************************************************************)
TestBlock(identifier, parent, timestamp, trxs) ==
    [identifier |-> identifier, parent |-> parent, timestamp |-> timestamp,
     transactions |-> trxs]

\* the blocks of test_heaviest_path, a cousin of block 3, and two blocks that
\* reuse an identifier with another content
TestBlocks ==
    {TestBlock(<<"1">>, chain.genesis_identifier_hash, 1, <<>>),
     TestBlock(<<"21">>, <<"1">>, 2, <<>>),
     TestBlock(<<"22">>, <<"1">>, 3, <<>>),
     TestBlock(<<"3">>, <<"22">>, 4, <<>>),
     TestBlock(<<"4">>, <<"3">>, 5, <<>>),
     TestBlock(<<"31">>, <<"21">>, 4, <<>>),
     TestBlock(<<"1">>, chain.genesis_identifier_hash, 7, <<>>),
     TestBlock(<<"21">>, <<"22">>, 2, <<>>)}

ChainAddBlock ==
    /\ ~poisoned
    /\ \E block \in TestBlocks :
        LET r == AddBlock(chain, block)
        IN  /\ chain' = r.chain
            /\ poisoned' = (r.result = "panic")
            /\ last' = Call("add_block", block, NoChain, r.result, r.result)
    /\ UNCHANGED node_vars
    /\ UNCHANGED <<transactions, genesis, sealers, now, pc, is_leader, is_co_leader, current_block>>

\* LongestPathWalker::walk_chain on the chain built so far, with a visitor
\* that keeps every call of visit_block
ChainWalk ==
    /\ ~poisoned
    /\ last' = [Call("walk_chain", NoBlock, NoChain, "none", "None")
                    EXCEPT !.visits = WalkChainCalls(chain)]
    /\ UNCHANGED node_vars
    /\ UNCHANGED <<chain, transactions, genesis, sealers, now, poisoned, pc, is_leader,
                   is_co_leader, current_block>>

ChainNext ==
    \/ ChainAddBlock
    \/ ChainWalk

ChainSpec == Init /\ [][ChainNext]_vars

(***************************************************************************)
(* The CliqueProtocol used on its own: messages are given to handle, and   *)
(* create_current_block_and_reset_transaction_buffer and sign are called,  *)
(* in any order, on the protocol of the sealer of Init.                    *)
(***************************************************************************)
\* votes a peer can send: one whose proofs verify, one with a rejected
\* membership proof, one with a rejected cast-as-intended proof, and one of a
\* voter index outside the image sets
TestTransactions ==
    {new_vote(0, "c1", TRUE, TRUE),
     new_vote(0, "c1", FALSE, TRUE),
     new_vote(0, "c1", TRUE, FALSE),
     new_vote(genesis.voters, "c1", TRUE, TRUE)}

\* the messages that end in on_transaction_receive, with the transaction they
\* hand over and the reply of handle
ProtocolMessages ==
    {[op |-> "TransactionPayload", transaction |-> t, reply |-> "TransactionAccept"] :
        t \in TestTransactions}
    \cup {[op |-> "OpenVote", transaction |-> new_voting_opened,
           reply |-> "OpenVoteAccept"],
          [op |-> "CloseVote", transaction |-> new_voting_closed,
           reply |-> "CloseVoteAccept"]}

\* blocks of a peer: two with one identifier and one parent, holding the vote
\* or the VoteOpened transaction
ProtocolBlocks ==
    {TestBlock(<<"1">>, chain.genesis_identifier_hash, 1, <<new_vote(0, "c1", TRUE, TRUE)>>),
     TestBlock(<<"1">>, chain.genesis_identifier_hash, 1, <<new_voting_opened>>)}

\* the record of a call that also keeps the transaction handed over and the
\* buffer the call found
ProtocolCall(op, block, transaction, added, reply) ==
    [Call(op, block, NoChain, added, reply)
        EXCEPT !.transaction = transaction, !.buffer_before = transactions]

\* handle(TransactionPayload(transaction)), handle(OpenVote), handle(CloseVote)
ProtocolTransaction ==
    /\ ~poisoned
    /\ \E m \in ProtocolMessages :
        /\ transactions' = OnTransactionReceive(transactions, chain, genesis, m.transaction)
        /\ last' = ProtocolCall(m.op, NoBlock, m.transaction, "none", m.reply)
    /\ UNCHANGED node_vars
    /\ UNCHANGED <<chain, genesis, sealers, now, poisoned, pc, is_leader, is_co_leader,
                   current_block>>

\* handle(BlockPayload(block))
ProtocolBlockPayload ==
    /\ ~poisoned
    /\ Cardinality(DOMAIN chain.blocks) <= MaxBlocks
    /\ \E block \in ProtocolBlocks :
        LET r == AddBlock(chain, block)
        IN  /\ transactions' = Retain(transactions, block)
            /\ chain' = r.chain
            /\ poisoned' = (r.result = "panic")
            /\ last' = ProtocolCall("BlockPayload", block, NoTransaction, r.result,
                                    CASE r.result = "true" -> "BlockAccept"
                                      [] r.result = "false" -> "BlockDuplicated"
                                      [] OTHER -> "panic")
    /\ UNCHANGED node_vars
    /\ UNCHANGED <<genesis, sealers, now, pc, is_leader, is_co_leader, current_block>>

\* create_current_block_and_reset_transaction_buffer; last.block is the block
\* it returned
ProtocolCreateBlock ==
    /\ ~poisoned
    /\ Cardinality(DOMAIN chain.blocks) <= MaxBlocks
    /\ transactions' = <<>>
    /\ last' = ProtocolCall("create_current_block",
                            CreateCurrentBlock(chain, transactions, now),
                            NoTransaction, "none", "None")
    /\ UNCHANGED node_vars
    /\ UNCHANGED <<chain, genesis, sealers, now, poisoned, pc, is_leader, is_co_leader,
                   current_block>>

\* sign of the block create_current_block just returned, or once more of the
\* block just signed
ProtocolSign ==
    /\ ~poisoned
    /\ last.op \in {"create_current_block", "sign"}
    /\ LET r == Sign(chain, last.block)
       IN  /\ chain' = r.chain
           /\ poisoned' = (r.result = "panic")
           /\ last' = ProtocolCall("sign", last.block, NoTransaction, r.added, r.result)
    /\ UNCHANGED node_vars
    /\ UNCHANGED <<transactions, genesis, sealers, now, pc, is_leader, is_co_leader,
                   current_block>>

ProtocolNext ==
    \/ ProtocolTransaction
    \/ ProtocolBlockPayload
    \/ ProtocolCreateBlock
    \/ ProtocolSign

ProtocolSpec == Init /\ [][ProtocolNext]_vars

(***************************************************************************)
(* The two handlers used on their own: every message variant is given to   *)
(* handle and to handle_rpc of the protocol of the sealer of Init.          *)
(***************************************************************************)
\* one message or more of every variant
HandlerMessages ==
    {Message(k) : k \in {"None", "Ping", "Pong", "BlockAccept", "BlockDuplicated",
                         "ChainRequest", "ChainAccept", "OpenVote", "OpenVoteAccept",
                         "CloseVote", "CloseVoteAccept", "RequestTally"}}
    \cup {TransactionPayload(new_vote(0, "c1", TRUE, TRUE)),
          TransactionPayload(new_vote(0, "c2", FALSE, TRUE)),
          TransactionAccept(new_voting_opened.identifier),
          BlockRequest(<<"1">>),
          BlockPayload(TestBlock(<<"1">>, chain.genesis_identifier_hash, 1,
                                 <<new_voting_opened, new_vote(0, "c1", TRUE, TRUE)>>)),
          RequestTallyPayload(NoTally),
          FindTransactionMessage(new_voting_opened.identifier),
          FindTransactionResponse(NoTransaction)}
    \cup {ChainResponse(RemoteChain(GenesisHash(genesis), 0, MaxRemoteHeight))}

\* the record of a call of a handler: the message, the buffer found, the
\* response and the message to broadcast
HandlerCall(op, message, response, broadcast, result) ==
    [Call(op, NoBlock, NoChain, "none", result)
        EXCEPT !.message = message, !.buffer_before = transactions,
               !.response = response, !.broadcast = broadcast]

\* handle(message) under the protocol lock
HandlerHandle ==
    /\ ~poisoned
    /\ \E message \in HandlerMessages :
        LET r == Handle(chain, transactions, genesis, message)
        IN  /\ chain' = r.chain
            /\ transactions' = r.transactions
            /\ poisoned' = (r.result = "panic")
            /\ last' = HandlerCall("handle", message, r.reply, Nothing, r.result)
    /\ UNCHANGED node_vars
    /\ UNCHANGED <<genesis, sealers, now, pc, is_leader, is_co_leader, current_block>>

\* handle_rpc(message) under the protocol lock
HandlerHandleRpc ==
    /\ ~poisoned
    /\ \E message \in HandlerMessages :
        LET r == HandleRpc(chain, transactions, genesis, message)
        IN  /\ chain' = r.chain
            /\ transactions' = r.transactions
            /\ last' = HandlerCall("handle_rpc", message, r.response, r.broadcast, "ok")
    /\ UNCHANGED node_vars
    /\ UNCHANGED <<genesis, sealers, now, poisoned, pc, is_leader, is_co_leader, current_block>>

HandlerNext ==
    \/ HandlerHandle
    \/ HandlerHandleRpc

HandlerSpec == Init /\ [][HandlerNext]_vars

(***************************************************************************)
(* The tally: blocks built by hand as in test_longest_path_sum are given   *)
(* to add_block, and the tally is requested over RPC.                      *)
(***************************************************************************)
TallyTransactionLists ==
    {<<new_voting_opened, new_vote(0, "c1", TRUE, TRUE), new_voting_closed>>,
     <<new_voting_opened, new_vote(0, "c2", TRUE, TRUE), new_voting_closed>>,
     <<new_voting_opened, new_vote(0, "c1", TRUE, TRUE)>>,
     <<new_vote(0, "c1", TRUE, TRUE)>>,
     <<new_vote(1, "c1", TRUE, TRUE), new_voting_closed>>,
     <<new_voting_opened, new_vote(0, "c1", TRUE, TRUE), new_vote(1, "c2", TRUE, TRUE),
       new_vote(0, "c2", TRUE, TRUE)>>}

\* a path of two blocks and a side branch of one block
TallyBlocks ==
    {TestBlock(<<"1">>, chain.genesis_identifier_hash, 1, t) : t \in TallyTransactionLists}
    \cup {TestBlock(<<"2">>, <<"1">>, 2, t) : t \in TallyTransactionLists}
    \cup {TestBlock(<<"3">>, chain.genesis_identifier_hash, 1, t) : t \in TallyTransactionLists}

TallyAddBlock ==
    /\ ~poisoned
    /\ \E block \in TallyBlocks :
        LET r == AddBlock(chain, block)
        IN  /\ chain' = r.chain
            /\ poisoned' = (r.result = "panic")
            /\ last' = Call("add_block", block, NoChain, r.result, r.result)
    /\ UNCHANGED node_vars
    /\ UNCHANGED <<transactions, genesis, sealers, now, pc, is_leader, is_co_leader, current_block>>

\* handle_rpc(RequestTally): the reply carries the tally
TallyRequest ==
    /\ ~poisoned
    /\ last' = [Call("RequestTally", NoBlock, NoChain, "none", "RequestTallyPayload")
                    EXCEPT !.tally = CalculateResult(chain)]
    /\ UNCHANGED node_vars
    /\ UNCHANGED <<chain, transactions, genesis, sealers, now, poisoned, pc, is_leader,
                   is_co_leader, current_block>>

\* the identifiers a peer can ask for: those of the transactions of the
\* blocks, and one that no transaction has
TallyIdentifiers ==
    {t[j].identifier : <<t, j>> \in {<<t, j>> \in TallyTransactionLists \X (1..4) :
                                          j <= Len(t)}}
    \cup {<<"unknown">>}

\* handle(FindTransaction(identifier)): last.transaction is the transaction of
\* the reply, NoTransaction for None
TallyFindTransaction ==
    /\ ~poisoned
    /\ \E identifier \in TallyIdentifiers :
        last' = [Call("FindTransaction", NoBlock, NoChain, "none", "FindTransactionResponse")
                    EXCEPT !.identifier = identifier,
                           !.transaction = FindTransaction(chain, identifier)]
    /\ UNCHANGED node_vars
    /\ UNCHANGED <<chain, transactions, genesis, sealers, now, poisoned, pc, is_leader,
                   is_co_leader, current_block>>

TallyNext ==
    \/ TallyAddBlock
    \/ TallyRequest
    \/ TallyFindTransaction

TallySpec == Init /\ [][TallyNext]_vars

(***************************************************************************)
(* The node with its threads (p2p/node.rs).  A thread is at a statement,   *)
(* thread[t].pc; "drop" is the end of a statement that locked the protocol *)
(* mutex in a temporary, where the guard is dropped, and thread[t].next is *)
(* the statement after it.  A step is one statement, one outcome of a      *)
(* network operation, or one sleep.                                        *)
(***************************************************************************)
\* what a peer sends to the peer port
NodePeerRequests ==
    {Message("Ping"),
     BlockPayload(TestBlock(<<"1">>, chain.genesis_identifier_hash, 1, <<>>))}

\* what a client sends to the RPC port
NodeRpcRequests ==
    {Message("RequestTally"), Message("ChainRequest"), Message("Ping"),
     TransactionPayload(new_vote(0, "c2", FALSE, TRUE))}

\* what a peer replies to the ChainRequest of the chain-copy request
NodeChainReplies == {ChainResponse(RemoteChain(GenesisHash(genesis), 0, 1))}

\* the statements at which a thread is suspended: in accept and read of an
\* inbound connection, in a write of a response, in connect, write and read of
\* an outbound exchange, and in the two sleeps of the minter
SuspensionPoints ==
    {"accept", "respond", "connect", "write", "read", "sleep", "wiggle"}

\* the statements that lock the protocol mutex
ProtocolLockPoints ==
    {"handle", "handle_reply", "is_leader", "is_co_leader", "reset", "period", "create",
     "wiggle_check", "sign_block"}

\* the statement after the loop over the peers
AfterLoop(t) ==
    CASE t = "listen_rpc" -> "accept"
      [] t = "sign" -> "sleep"
      [] OTHER -> "done"

\* lock().unwrap() on the poisoned protocol mutex, or on the poisoned peer
\* mutex: the thread panics; a mutex it holds is poisoned
NodeLockPoisoned(t) ==
    /\ \/ poisoned /\ thread[t].pc \in ProtocolLockPoints
       \/ peers_mutex = "poisoned" /\ thread[t].pc = "broadcast"
    /\ thread' = [thread EXCEPT ![t].pc = "dead"]
    /\ peers_mutex' = IF peers_mutex = t THEN "poisoned" ELSE peers_mutex
    /\ UNCHANGED <<chain, transactions, genesis, sealers, now, poisoned, pc, is_leader,
                   is_co_leader, current_block, last, protocol_mutex, silent>>

\* the end of a statement that locked the protocol mutex
NodeDrop(t) ==
    /\ thread[t].pc = "drop"
    /\ protocol_mutex = t
    /\ protocol_mutex' = "free"
    /\ thread' = [thread EXCEPT ![t].pc = thread[t].next]
    /\ UNCHANGED <<chain, transactions, genesis, sealers, now, poisoned, pc, is_leader,
                   is_co_leader, current_block, last, peers_mutex, silent>>

\* Node::listen: accept and read_to_string; a read of no byte or a read error
\* returns from the closure of the thread
ListenAccept ==
    /\ thread["listen"].pc = "accept"
    /\ \/ \E request \in NodePeerRequests :
            thread' = [thread EXCEPT !["listen"].pc = "handle",
                                     !["listen"].request = request]
       \/ thread' = [thread EXCEPT !["listen"].pc = "returned"]
    /\ UNCHANGED <<chain, transactions, genesis, sealers, now, poisoned, pc, is_leader,
                   is_co_leader, current_block, last, protocol_mutex, peers_mutex, silent>>

\* Node::listen: lock().unwrap().handle(request)
ListenHandle ==
    /\ thread["listen"].pc = "handle"
    /\ ~poisoned
    /\ protocol_mutex = "free"
    /\ Cardinality(DOMAIN chain.blocks) <= MaxBlocks
    /\ LET r == Handle(chain, transactions, genesis, thread["listen"].request)
       IN  /\ chain' = r.chain
           /\ transactions' = r.transactions
           /\ poisoned' = (r.result = "panic")
           /\ protocol_mutex' = IF r.result = "panic" THEN "free" ELSE "listen"
           /\ thread' = [thread EXCEPT
                           !["listen"].pc = IF r.result = "panic" THEN "dead" ELSE "drop",
                           !["listen"].next = "respond",
                           !["listen"].response = r.reply]
    /\ UNCHANGED <<genesis, sealers, now, pc, is_leader, is_co_leader, current_block, last,
                   peers_mutex, silent>>

\* Node::listen: write_all of the response and flush, both unwrapped
ListenRespond ==
    /\ thread["listen"].pc = "respond"
    /\ \E outcome \in {"accept", "dead"} :
        thread' = [thread EXCEPT !["listen"].pc = outcome]
    /\ UNCHANGED <<chain, transactions, genesis, sealers, now, poisoned, pc, is_leader,
                   is_co_leader, current_block, last, protocol_mutex, peers_mutex, silent>>

\* Node::listen_rpc: accept and read_to_string
RpcAccept ==
    /\ thread["listen_rpc"].pc = "accept"
    /\ \/ \E request \in NodeRpcRequests :
            thread' = [thread EXCEPT !["listen_rpc"].pc = "handle",
                                     !["listen_rpc"].request = request]
       \/ thread' = [thread EXCEPT !["listen_rpc"].pc = "returned"]
    /\ UNCHANGED <<chain, transactions, genesis, sealers, now, poisoned, pc, is_leader,
                   is_co_leader, current_block, last, protocol_mutex, peers_mutex, silent>>

\* Node::listen_rpc: lock().unwrap().handle_rpc(request); for None the stream
\* is shut down and the next connection is accepted
RpcHandle ==
    /\ thread["listen_rpc"].pc = "handle"
    /\ ~poisoned
    /\ protocol_mutex = "free"
    /\ LET r == HandleRpc(chain, transactions, genesis, thread["listen_rpc"].request)
       IN  /\ chain' = r.chain
           /\ transactions' = r.transactions
           /\ protocol_mutex' = "listen_rpc"
           /\ thread' = [thread EXCEPT
                           !["listen_rpc"].pc = "drop",
                           !["listen_rpc"].next = IF r.response = Nothing THEN "accept"
                                                  ELSE "respond",
                           !["listen_rpc"].response = r.response,
                           !["listen_rpc"].broadcast = r.broadcast]
    /\ UNCHANGED <<genesis, sealers, now, poisoned, pc, is_leader, is_co_leader, current_block,
                   last, peers_mutex, silent>>

\* Node::listen_rpc: write_all of the response and flush, both unwrapped; the
\* loop over the peers follows for every Some
RpcRespond ==
    /\ thread["listen_rpc"].pc = "respond"
    /\ \E outcome \in {"broadcast", "dead"} :
        thread' = [thread EXCEPT !["listen_rpc"].pc = outcome]
    /\ UNCHANGED <<chain, transactions, genesis, sealers, now, poisoned, pc, is_leader,
                   is_co_leader, current_block, last, protocol_mutex, peers_mutex, silent>>

\* for peer_addr in peers.lock().unwrap().iter(): the guard is a temporary of
\* the iterator expression and lives until the loop ends
NodeLockPeers(t) ==
    /\ thread[t].pc = "broadcast"
    /\ peers_mutex = "free"
    /\ peers_mutex' = t
    /\ thread' = [thread EXCEPT ![t].pc = "next_peer", ![t].left = Sealers]
    /\ UNCHANGED <<chain, transactions, genesis, sealers, now, poisoned, pc, is_leader,
                   is_co_leader, current_block, last, protocol_mutex, silent>>

\* the next round of the loop over the peers, in the order of the HashSet; the
\* own address is skipped; when the loop ends the guard is dropped and the
\* locals of the round of the outer loop go out of scope
NodeNextPeer(t) ==
    /\ thread[t].pc = "next_peer"
    /\ IF thread[t].left = <<>>
       THEN /\ peers_mutex' = "free"
            /\ thread' = [thread EXCEPT ![t] = [ThreadNew(t) EXCEPT !.pc = AfterLoop(t)]]
       ELSE /\ thread' = [thread EXCEPT
                    ![t].left = Tail(@),
                    ![t].peer = IF Head(thread[t].left) = "own" THEN @
                                ELSE Head(thread[t].left),
                    ![t].pc = IF Head(thread[t].left) = "own" THEN "next_peer"
                              ELSE "connect"]
            /\ UNCHANGED peers_mutex
    /\ UNCHANGED <<chain, transactions, genesis, sealers, now, poisoned, pc, is_leader,
                   is_co_leader, current_block, last, protocol_mutex, silent>>

\* TcpStream::connect: Ok, or Err that is warned and skipped
NodeConnect(t) ==
    /\ thread[t].pc = "connect"
    /\ \E outcome \in {"write", "next_peer"} :
        thread' = [thread EXCEPT ![t].pc = outcome]
    /\ UNCHANGED <<chain, transactions, genesis, sealers, now, poisoned, pc, is_leader,
                   is_co_leader, current_block, last, protocol_mutex, peers_mutex, silent>>

\* handle_outgoing_connection: write_all and flush, both unwrapped, then the
\* shutdown of the write side, whose error returns None
NodeWrite(t) ==
    /\ thread[t].pc = "write"
    /\ \/ /\ \E outcome \in {"read", "next_peer"} :
                thread' = [thread EXCEPT ![t].pc = outcome]
          /\ UNCHANGED peers_mutex
       \/ /\ thread' = [thread EXCEPT ![t].pc = "dead"]
          /\ peers_mutex' = "poisoned"
    /\ UNCHANGED <<chain, transactions, genesis, sealers, now, poisoned, pc, is_leader,
                   is_co_leader, current_block, last, protocol_mutex, silent>>

\* handle_outgoing_connection: read_to_string returns when the peer has closed
\* its side; only the chain-copy request looks at the message read
NodeRead(t) ==
    /\ thread[t].pc = "read"
    /\ thread[t].peer \notin silent
    /\ \/ thread' = [thread EXCEPT ![t].pc = "next_peer"]
       \/ /\ t = "connect"
          /\ \E response \in NodeChainReplies :
                thread' = [thread EXCEPT ![t].pc = "handle_reply",
                                         ![t].response = response]
    /\ UNCHANGED <<chain, transactions, genesis, sealers, now, poisoned, pc, is_leader,
                   is_co_leader, current_block, last, protocol_mutex, peers_mutex, silent>>

\* a peer that accepted the connection never replies and never closes
PeerFallsSilent ==
    /\ \E t \in Threads :
        /\ thread[t].pc = "read"
        /\ thread[t].peer \notin silent
        /\ silent' = silent \cup {thread[t].peer}
    /\ UNCHANGED <<chain, transactions, genesis, sealers, now, poisoned, pc, is_leader,
                   is_co_leader, current_block, last, thread, protocol_mutex,
                   peers_mutex>>

\* main: the chain-copy request runs on the main thread, when asked for
ConnectStart ==
    /\ thread["connect"].pc = "start"
    /\ \/ thread' = [thread EXCEPT !["connect"].pc = "broadcast",
                                   !["connect"].broadcast = Message("ChainRequest")]
       \/ thread' = [thread EXCEPT !["connect"].pc = "done"]
    /\ UNCHANGED <<chain, transactions, genesis, sealers, now, poisoned, pc, is_leader,
                   is_co_leader, current_block, last, protocol_mutex, peers_mutex, silent>>

\* the chain-copy request: protocol.lock().unwrap().handle(message), inside the
\* loop over the peers
ConnectHandleReply ==
    /\ thread["connect"].pc = "handle_reply"
    /\ ~poisoned
    /\ protocol_mutex = "free"
    /\ LET r == Handle(chain, transactions, genesis, thread["connect"].response)
       IN  /\ chain' = r.chain
           /\ transactions' = r.transactions
           /\ protocol_mutex' = "connect"
           /\ thread' = [thread EXCEPT !["connect"].pc = "drop",
                                       !["connect"].next = "next_peer"]
    /\ UNCHANGED <<genesis, sealers, now, poisoned, pc, is_leader, is_co_leader, current_block,
                   last, peers_mutex, silent>>

\* main: sign() puts the minter on the thread pool after the chain-copy request
SignStart ==
    /\ thread["sign"].pc = "not started"
    /\ thread["connect"].pc = "done"
    /\ thread' = [thread EXCEPT !["sign"].pc = "sleep"]
    /\ UNCHANGED <<chain, transactions, genesis, sealers, now, poisoned, pc, is_leader,
                   is_co_leader, current_block, last, protocol_mutex, peers_mutex, silent>>

\* the sleep of a tick, and the wiggle sleep
SignSleep ==
    /\ thread["sign"].pc \in {"sleep", "wiggle"}
    /\ thread' = [thread EXCEPT
                    !["sign"].pc = IF @ = "sleep" THEN "is_leader" ELSE "sign_block"]
    /\ UNCHANGED <<chain, transactions, genesis, sealers, now, poisoned, pc, is_leader,
                   is_co_leader, current_block, last, protocol_mutex, peers_mutex, silent>>

\* the statements of the minter that lock the protocol mutex for one call
SignLocked ==
    /\ ~poisoned
    /\ protocol_mutex = "free"
    /\ LET at == thread["sign"].pc
           locked(next) == /\ protocol_mutex' = "sign"
                           /\ thread' = [thread EXCEPT !["sign"].pc = "drop",
                                                       !["sign"].next = next]
       IN  \/ /\ at = "is_leader"
              /\ is_leader' = IsLeader(chain, genesis.signer_index, genesis.signer_count)
              /\ locked("is_co_leader")
              /\ UNCHANGED <<chain, transactions, poisoned, is_co_leader, current_block>>
           \/ /\ at = "is_co_leader"
              /\ is_co_leader' = IsCoLeader(chain, genesis.signer_index,
                                            genesis.signer_count, genesis.signer_limit)
              /\ locked(IF ~is_leader /\ ~is_co_leader' THEN "reset" ELSE "period")
              /\ UNCHANGED <<chain, transactions, poisoned, is_leader, current_block>>
           \/ /\ at = "reset"
              /\ transactions' = <<>>
              /\ locked("sleep")
              /\ UNCHANGED <<chain, poisoned, is_leader, is_co_leader, current_block>>
           \/ /\ at = "period"
              /\ locked(IF IsBlockPeriodOver(chain, genesis, now) THEN "create" ELSE "sleep")
              /\ UNCHANGED <<chain, transactions, poisoned, is_leader, is_co_leader,
                             current_block>>
           \/ /\ at = "create"
              /\ Cardinality(DOMAIN chain.blocks) <= MaxBlocks
              /\ current_block' = CreateCurrentBlock(chain, transactions, now)
              /\ transactions' = <<>>
              /\ locked("wiggle_check")
              /\ UNCHANGED <<chain, poisoned, is_leader, is_co_leader>>
           \/ /\ at = "wiggle_check"
              /\ locked(IF IsCoLeader(chain, genesis.signer_index, genesis.signer_count,
                                      genesis.signer_limit)
                        THEN "wiggle" ELSE "sign_block")
              /\ UNCHANGED <<chain, transactions, poisoned, is_leader, is_co_leader,
                             current_block>>
    /\ UNCHANGED <<genesis, sealers, now, pc, last, peers_mutex, silent>>

\* let block_to_broadcast = lock().unwrap().sign(current_block), and the match
\* on it
SignBlock ==
    /\ thread["sign"].pc = "sign_block"
    /\ ~poisoned
    /\ protocol_mutex = "free"
    /\ LET r == Sign(chain, current_block)
       IN  /\ chain' = r.chain
           /\ poisoned' = (r.result = "panic")
           /\ protocol_mutex' = IF r.result = "panic" THEN "free" ELSE "sign"
           /\ thread' = [thread EXCEPT
                           !["sign"].pc = IF r.result = "panic" THEN "dead" ELSE "drop",
                           !["sign"].next = IF r.result = "Some" THEN "broadcast"
                                           ELSE "sleep",
                           !["sign"].broadcast = BlockPayload(current_block)]
    /\ UNCHANGED <<transactions, genesis, sealers, now, pc, is_leader, is_co_leader,
                   current_block, last, peers_mutex, silent>>

NodeTick ==
    /\ now < MaxTime
    /\ now' = now + 1
    /\ UNCHANGED <<chain, transactions, genesis, sealers, poisoned, pc, is_leader, is_co_leader,
                   current_block, last, node_vars>>

NodeNext ==
    \/ NodeTick
    \/ ListenAccept
    \/ ListenHandle
    \/ ListenRespond
    \/ RpcAccept
    \/ RpcHandle
    \/ RpcRespond
    \/ ConnectStart
    \/ ConnectHandleReply
    \/ SignStart
    \/ SignSleep
    \/ SignLocked
    \/ SignBlock
    \/ PeerFallsSilent
    \/ \E t \in Threads : NodeLockPoisoned(t)
    \/ \E t \in Threads : NodeDrop(t)
    \/ \E t \in Threads : NodeLockPeers(t)
    \/ \E t \in Threads : NodeNextPeer(t)
    \/ \E t \in Threads : NodeConnect(t)
    \/ \E t \in Threads : NodeWrite(t)
    \/ \E t \in Threads : NodeRead(t)

NodeSpec == Init /\ [][NodeNext]_vars

(***************************************************************************)
(* The network: every sealer of the genesis runs a node, started without   *)
(* the chain-copy request at any second.  A sealer is its protocol (chain, *)
(* buffer) and its minter; the minter is at a statement, sealers[i].pc,    *)
(* and one step is one statement under the protocol lock, with the sleep   *)
(* that precedes it.  The block broadcast is synchronous: the minter       *)
(* writes the block to a peer and reads the reply the listener of the peer *)
(* sends after handle, one peer after the other.                           *)
(***************************************************************************)
\* the genesis as sealer i reads it: its own index is found by its address
SealerGenesis(i) == [genesis EXCEPT !.signer_index = i]

\* main: Node::new (CliqueProtocol::new, Chain::new at the wall clock),
\* listen, listen_rpc and sign
NetStart(i) ==
    /\ sealers[i].state = "off"
    /\ sealers' = [sealers EXCEPT
                     ![i].state = "on",
                     ![i].chain = ChainNew(GenesisHash(SealerGenesis(i)), now)]
    /\ UNCHANGED <<chain, transactions, genesis, now, poisoned, pc, is_leader,
                   is_co_leader, current_block, last, node_vars>>

\* one statement of the minter loop of sealer i
NetMinter(i) ==
    LET me == sealers[i]
        g == SealerGenesis(i)
    IN  /\ me.state = "on"
        /\ \/ /\ me.pc = "sleep"
              /\ sealers' = [sealers EXCEPT
                    ![i].is_leader = IsLeader(me.chain, g.signer_index, g.signer_count),
                    ![i].pc = "is_co_leader"]
           \/ /\ me.pc = "is_co_leader"
              /\ LET co == IsCoLeader(me.chain, g.signer_index, g.signer_count,
                                      g.signer_limit)
                 IN  sealers' = [sealers EXCEPT
                        ![i].is_co_leader = co,
                        ![i].pc = IF ~me.is_leader /\ ~co THEN "reset" ELSE "period"]
           \/ /\ me.pc = "reset"
              /\ sealers' = [sealers EXCEPT ![i].transactions = <<>>,
                                            ![i].is_leader = FALSE,
                                            ![i].is_co_leader = FALSE,
                                            ![i].pc = "sleep"]
           \/ /\ me.pc = "period"
              /\ sealers' = [sealers EXCEPT
                    ![i].is_leader = FALSE,
                    ![i].is_co_leader = FALSE,
                    ![i].pc = IF IsBlockPeriodOver(me.chain, g, now) THEN "create"
                              ELSE "sleep"]
           \/ /\ me.pc = "create"
              /\ sealers' = [sealers EXCEPT
                    ![i].current_block = CreateCurrentBlock(me.chain, me.transactions, now),
                    ![i].transactions = <<>>,
                    ![i].pc = "wiggle_check"]
           \/ /\ me.pc = "wiggle_check"
              /\ sealers' = [sealers EXCEPT
                    ![i].pc = IF IsCoLeader(me.chain, g.signer_index, g.signer_count,
                                            g.signer_limit)
                              THEN "wiggle" ELSE "sign"]
           \/ /\ me.pc \in {"wiggle", "sign"}
              /\ LET r == Sign(me.chain, me.current_block)
                 IN  sealers' = [sealers EXCEPT
                        ![i].chain = r.chain,
                        ![i].state = IF r.result = "panic" THEN "dead" ELSE "on",
                        ![i].pc = IF r.result = "Some" THEN "broadcast" ELSE "sleep",
                        ![i].current_block = IF r.result = "Some" THEN @ ELSE NoBlock,
                        ![i].left = IF r.result = "Some" THEN SealerIndices \ {i} ELSE {}]
        /\ UNCHANGED <<chain, transactions, genesis, now, poisoned, pc, is_leader,
                       is_co_leader, current_block, last, node_vars>>

\* one round of the broadcast loop of sealer i: the exchange with peer j.  A
\* peer that is not running refuses the connection, which is warned and
\* skipped; a running peer answers after handle(BlockPayload(block)), and
\* dies with its protocol mutex poisoned when handle panics
NetDeliver(i, j) ==
    /\ sealers[i].pc = "broadcast"
    /\ sealers[i].state # "off"
    /\ j \in sealers[i].left
    /\ LET r == Handle(sealers[j].chain, sealers[j].transactions, SealerGenesis(j),
                       BlockPayload(sealers[i].current_block))
           delivered == IF sealers[j].state = "on"
                        THEN [sealers EXCEPT
                                ![j].chain = r.chain,
                                ![j].transactions = r.transactions,
                                ![j].state = IF r.result = "panic" THEN "dead" ELSE "on"]
                        ELSE sealers
           last_peer == sealers[i].left = {j}
       IN  sealers' = [delivered EXCEPT
                        ![i].left = @ \ {j},
                        ![i].pc = IF last_peer THEN "sleep" ELSE @,
                        ![i].current_block = IF last_peer THEN NoBlock ELSE @]
    /\ UNCHANGED <<chain, transactions, genesis, now, poisoned, pc, is_leader,
                   is_co_leader, current_block, last, node_vars>>

\* the wall clock, common to the sealers
NetTick ==
    /\ now < MaxTime
    /\ now' = now + 1
    /\ UNCHANGED <<chain, transactions, genesis, sealers, poisoned, pc, is_leader,
                   is_co_leader, current_block, last, node_vars>>

NetNext ==
    \/ NetTick
    \/ \E i \in SealerIndices : NetStart(i)
    \/ \E i \in SealerIndices : NetMinter(i)
    \/ \E i, j \in SealerIndices : NetDeliver(i, j)

NetSpec == Init /\ [][NetNext]_vars

(***************************************************************************)
(* Notions the properties are stated with.  They are defined from the      *)
(* graph, not from the walker.                                             *)
(***************************************************************************)
\* the blocks listed as children of a block of the set
ChildrenOf(c, set) ==
    {child \in DOMAIN c.blocks :
        \E p \in set : Contains(c.adjacent_matrix[p], child)}

\* the blocks n edges away from genesis through the child lists
RECURSIVE Level(_, _)
Level(c, n) ==
    IF n = 0
    THEN {c.genesis_identifier_hash}
    ELSE LET previous == Level(c, n - 1) IN ChildrenOf(c, previous)

\* the maximal number of edges from genesis to a block: breadth first, level
\* by level, until a level has no children
RECURSIVE LastLevel(_, _, _)
LastLevel(c, level, n) ==
    LET next == ChildrenOf(c, level)
    IN  IF next = {} THEN n ELSE LastLevel(c, next, n + 1)

HeaviestHeight(c) == LastLevel(c, {c.genesis_identifier_hash}, 0)

\* the blocks below id (id included) in depth-first order over the child lists
RECURSIVE Preorder(_, _)
RECURSIVE PreorderOfChildren(_, _, _)
PreorderOfChildren(c, children, i) ==
    IF i > Len(children)
    THEN <<>>
    ELSE Preorder(c, children[i]) \o PreorderOfChildren(c, children, i + 1)

Preorder(c, id) == <<id>> \o PreorderOfChildren(c, c.adjacent_matrix[id], 1)

\* the number of parent links from a block up to genesis
RECURSIVE DistanceToGenesis(_, _)
DistanceToGenesis(c, id) ==
    IF id = c.genesis_identifier_hash
    THEN 0
    ELSE 1 + DistanceToGenesis(c, c.blocks[id].parent)

\* the first block in depth-first order at maximal distance
FirstDeepest(c) ==
    LET order == Preorder(c, c.genesis_identifier_hash)
        height == HeaviestHeight(c)
        deepest == {i \in 1..Len(order) : DistanceToGenesis(c, order[i]) = height}
        first == CHOOSE i \in deepest : \A j \in deepest : i <= j
    IN  order[first]

AddBlockCalled == last.op \in {"add_block", "BlockPayload", "sign"} /\ last.added # "none"

NoDuplicates(seq) == \A i, j \in 1..Len(seq) : seq[i] = seq[j] => i = j

(***************************************************************************)
(* C1: in every chain state of a running node, every non-genesis block has *)
(* its parent as a key of the adjacency map and is listed among the        *)
(* children of its parent.                                                 *)
(***************************************************************************)
C1_EveryBlockLinkedToParent ==
    ~poisoned =>
        \A id \in DOMAIN chain.blocks :
            id # chain.genesis_identifier_hash =>
                /\ chain.blocks[id].parent \in DOMAIN chain.adjacent_matrix
                /\ Contains(chain.adjacent_matrix[chain.blocks[id].parent], id)

(***************************************************************************)
(* C2: add_block with a block whose parent is not a key of the adjacency   *)
(* map fails: it does not return true and does not store the block.        *)
(***************************************************************************)
C2_UnknownParentFails ==
    (AddBlockCalled /\ ~last.parent_known) =>
        /\ last.added # "true"
        /\ (~last.id_known => last.block.identifier \notin DOMAIN chain.blocks)
        /\ (~last.id_known => last.block.identifier \notin DOMAIN chain.adjacent_matrix)

(***************************************************************************)
(* C3: add_block is idempotent: after add_block returned for a block whose *)
(* parent is known, a second add_block with the same block returns false   *)
(* and leaves blocks and adjacency as they were.                           *)
(***************************************************************************)
C3_AddBlockIdempotent ==
    [][(/\ last.op = "add_block"
        /\ last.parent_known
        /\ last.added \in {"true", "false"}
        /\ last'.op = "add_block"
        /\ last'.block = last.block)
       => (last'.added = "false" /\ chain' = chain)]_vars

C3_Witness ==
    /\ last.op = "add_block"
    /\ last.added = "false"
    /\ last.same_value
    /\ Cardinality(DOMAIN chain.blocks) = 2
    /\ chain.adjacent_matrix[chain.genesis_identifier_hash] = << <<"1">> >>

(***************************************************************************)
(* C4: in every chain state of a running node the keys of adjacency are    *)
(* the keys of blocks, every listed child is a stored block whose parent   *)
(* is the key of the list, and no child list holds an identifier twice.    *)
(***************************************************************************)
C4_AdjacencyConsistent ==
    ~poisoned =>
        /\ DOMAIN chain.adjacent_matrix = DOMAIN chain.blocks
        /\ \A p \in DOMAIN chain.adjacent_matrix :
            /\ NoDuplicates(chain.adjacent_matrix[p])
            /\ \A i \in 1..Len(chain.adjacent_matrix[p]) :
                /\ chain.adjacent_matrix[p][i] \in DOMAIN chain.blocks
                /\ chain.blocks[chain.adjacent_matrix[p][i]].parent = p

C4_Witness ==
    /\ ~poisoned
    /\ last.op = "sign"
    /\ last.added = "true"
    /\ \E p \in DOMAIN chain.adjacent_matrix : Len(chain.adjacent_matrix[p]) = 2

(***************************************************************************)
(* C5 as stated: add_block with a block whose identifier is already a key  *)
(* of blocks but whose value differs from the stored block always ends in  *)
(* the fatal failure.                                                      *)
(***************************************************************************)
C5_CollisionAlwaysFatal ==
    (AddBlockCalled /\ last.id_known /\ ~last.same_value) => last.added = "panic"

(***************************************************************************)
(* C5 as amended: add_block with a block whose identifier is already a key *)
(* of blocks but whose value differs never returns true; it returns false  *)
(* and leaves the chain unchanged when the identifier is already listed    *)
(* among the children of the block's parent, and ends in the fatal failure *)
(* otherwise.                                                              *)
(***************************************************************************)
C5_CollisionFatalUnlessChild ==
    [][(/\ last'.op = "add_block"
        /\ last'.id_known
        /\ ~last'.same_value)
       => /\ last'.added = (IF last'.is_child THEN "false" ELSE "panic")
          /\ (last'.added = "false" => chain' = chain)]_vars

C5_Witness ==
    /\ last.op = "add_block"
    /\ last.id_known
    /\ ~last.same_value
    /\ last.parent_known
    /\ last.added = "panic"

(***************************************************************************)
(* C6: get_current_block returns the maximal number of edges from genesis  *)
(* to a block and the first block in depth-first order over the child      *)
(* lists at that distance; (0, genesis) for a chain holding only genesis.  *)
(***************************************************************************)
C6_CurrentBlockIsFirstDeepest ==
    ~poisoned =>
        /\ GetCurrentBlock(chain)
            = <<HeaviestHeight(chain), chain.blocks[FirstDeepest(chain)]>>
        /\ (DOMAIN chain.blocks = {chain.genesis_identifier_hash}
            => GetCurrentBlock(chain)
                = <<0, chain.blocks[chain.genesis_identifier_hash]>>)

C6_Witness ==
    /\ ~poisoned
    /\ HeaviestHeight(chain) = 3
    /\ Level(chain, 3) = {<<"3">>, <<"31">>}
    /\ chain.adjacent_matrix[<<"1">>] = << <<"22">>, <<"21">> >>
    /\ GetCurrentBlock(chain)[2].identifier = <<"3">>

(***************************************************************************)
(* C7: handle(ChainResponse(other)) replies ChainAccept; the chain is      *)
(* unchanged when the genesis configuration hashes differ, becomes other   *)
(* when the hashes agree and other is strictly higher, and is kept         *)
(* otherwise.                                                              *)
(***************************************************************************)
C7_ReplaceChainRule ==
    [][last'.op = "ChainResponse"
       => /\ last'.reply = "ChainAccept"
          /\ chain' = IF last'.other.genesis_configuration_hash
                            # chain.genesis_configuration_hash
                      THEN chain
                      ELSE IF HeaviestHeight(last'.other) > HeaviestHeight(chain)
                           THEN last'.other
                           ELSE chain]_vars

C7_Witness ==
    /\ last.op = "ChainResponse"
    /\ chain = last.other
    /\ last.height_before > 0
    /\ HeaviestHeight(chain) > last.height_before

(***************************************************************************)
(* C8: the heaviest height of the chain of a running node never decreases, *)
(* whatever the interleaving of replace_chain, BlockPayload and sign.      *)
(***************************************************************************)
C8_HeightNeverDecreases ==
    [][(~poisoned' /\ chain' # chain)
       => HeaviestHeight(chain') >= HeaviestHeight(chain)]_vars

C8_Witness ==
    /\ last.op = "ChainResponse"
    /\ last.other.genesis_configuration_hash = chain.genesis_configuration_hash
    /\ HeaviestHeight(last.other) < last.height_before
    /\ chain # last.other

(***************************************************************************)
(* C9: at every height h and for every number of sealers, is_leader holds  *)
(* for exactly one signer index, h mod signer_count; the minter reads that *)
(* value for its own index.                                                *)
(***************************************************************************)
C9_LeaderIsHeightModCount ==
    ~poisoned =>
        LET h == HeaviestHeight(chain)
        IN  /\ \A n \in 1..MaxSigners :
                {i \in 0..(n - 1) : IsLeader(chain, i, n)} = {h % n}
            /\ (last.op = "is_leader"
                => (is_leader <=> genesis.signer_index = h % genesis.signer_count))

C9_Witness ==
    /\ ~poisoned
    /\ last.op = "is_leader"
    /\ is_leader
    /\ HeaviestHeight(chain) > 0

(***************************************************************************)
(* C10: is_co_leader holds exactly for the signer indices in the window    *)
(* from (h mod signer_count) + 1 to (h + signer_limit) mod signer_count,   *)
(* which wraps: when the upper bound is below the lower bound, the indices *)
(* at or above the lower bound and those at or below the upper bound.      *)
(***************************************************************************)
InWrappingWindow(index, lower, upper) ==
    IF upper < lower
    THEN index >= lower \/ index <= upper
    ELSE index >= lower /\ index <= upper

C10_CoLeaderWindowWraps ==
    ~poisoned =>
        LET h == HeaviestHeight(chain)
            n == genesis.signer_count
        IN  \A i \in 0..(n - 1) :
                IsCoLeader(chain, i, n, genesis.signer_limit)
                <=> InWrappingWindow(i, (h % n) + 1, (h + genesis.signer_limit) % n)

(***************************************************************************)
(* C11: at every height h, for every number of sealers and every signer    *)
(* limit, the sealer at index h mod signer_count is leader and is not      *)
(* co-leader, and no index is leader and co-leader in one chain state.     *)
(***************************************************************************)
C11_LeaderIsNotCoLeader ==
    ~poisoned =>
        LET h == HeaviestHeight(chain)
        IN  \A n \in 1..MaxSigners : \A l \in 0..MaxSignerLimit :
                /\ IsLeader(chain, h % n, n)
                /\ ~IsCoLeader(chain, h % n, n, l)
                /\ \A i \in 0..(n - 1) :
                    ~(IsLeader(chain, i, n) /\ IsCoLeader(chain, i, n, l))

C11_Witness ==
    /\ ~poisoned
    /\ last.op = "add_block"
    /\ HeaviestHeight(chain) = 1
    /\ IsLeader(chain, 1, 3)
    /\ IsCoLeader(chain, 2, 3, 1)
    /\ ~IsCoLeader(chain, 1, 3, 1)

(***************************************************************************)
(* C12: at every height, with signer_limit < signer_count, exactly         *)
(* signer_limit + 1 signer indices are leader or co-leader.                *)
(***************************************************************************)
C12_WindowHasLimitPlusOne ==
    ~poisoned =>
        \A n \in 1..MaxSigners : \A l \in 0..MaxSignerLimit :
            l < n =>
                Cardinality({i \in 0..(n - 1) :
                    IsLeader(chain, i, n) \/ IsCoLeader(chain, i, n, l)}) = l + 1

(***************************************************************************)
(* C13: a Vote whose membership proof or cast-as-intended proof is         *)
(* rejected, or whose voter index is outside the image sets, is dropped:   *)
(* the buffer and the chain are the same after the call, whatever the role *)
(* of the node.                                                            *)
(***************************************************************************)
C13_InvalidVoteDropped ==
    [][(/\ last'.op = "TransactionPayload"
        /\ last'.transaction.trx_type = "Vote"
        /\ \/ ~last'.transaction.data.membership_ok
           \/ ~last'.transaction.data.cai_ok
           \/ last'.transaction.data.voter_idx >= genesis.voters)
       => (transactions' = transactions /\ chain' = chain)]_vars

C13_Witness ==
    /\ last.op = "TransactionPayload"
    /\ last.transaction.trx_type = "Vote"
    /\ ~last.transaction.data.cai_ok
    /\ HeaviestHeight(chain) = 1
    /\ genesis.signer_index = 1 % genesis.signer_count
    /\ Len(transactions) = 2
    /\ transactions = last.buffer_before

(***************************************************************************)
(* C14: the buffer never holds two transactions with one identifier, and   *)
(* receiving a transaction, OpenVote or CloseVote whose identifier is      *)
(* already buffered leaves the buffer unchanged.                           *)
(***************************************************************************)
C14_BufferHasNoDuplicate ==
    /\ \A i, j \in 1..Len(transactions) :
            transactions[i].identifier = transactions[j].identifier => i = j
    /\ (/\ last.op \in {"TransactionPayload", "OpenVote", "CloseVote"}
        /\ \E i \in 1..Len(last.buffer_before) :
                last.buffer_before[i].identifier = last.transaction.identifier)
       => transactions = last.buffer_before

C14_Witness ==
    /\ last.op = "OpenVote"
    /\ \E i \in 1..Len(last.buffer_before) :
        last.buffer_before[i].identifier = new_voting_opened.identifier
    /\ HeaviestHeight(chain) = 0
    /\ Len(transactions) = 2
    /\ transactions = last.buffer_before

(***************************************************************************)
(* C15: a valid transaction that is not yet buffered is appended at the    *)
(* end of the buffer if and only if the node is leader or co-leader at the *)
(* heaviest height; otherwise the buffer is unchanged; the chain is        *)
(* unchanged in both cases.                                                *)
(***************************************************************************)
C15_BufferedIffLeaderOrCoLeader ==
    [][(/\ last'.op \in {"TransactionPayload", "OpenVote", "CloseVote"}
        /\ \/ last'.transaction.trx_type # "Vote"
           \/ /\ last'.transaction.data.voter_idx < genesis.voters
              /\ last'.transaction.data.membership_ok
              /\ last'.transaction.data.cai_ok
        /\ \A i \in 1..Len(transactions) :
                transactions[i].identifier # last'.transaction.identifier)
       => /\ chain' = chain
          /\ transactions' =
                IF \/ IsLeader(chain, genesis.signer_index, genesis.signer_count)
                   \/ IsCoLeader(chain, genesis.signer_index, genesis.signer_count,
                                 genesis.signer_limit)
                THEN transactions \o <<last'.transaction>>
                ELSE transactions]_vars

C15_Witness ==
    /\ last.op = "TransactionPayload"
    /\ last.transaction = new_vote(0, "c1", TRUE, TRUE)
    /\ last.buffer_before = <<new_voting_opened>>
    /\ transactions = <<new_voting_opened, new_vote(0, "c1", TRUE, TRUE)>>
    /\ IsCoLeader(chain, genesis.signer_index, genesis.signer_count, genesis.signer_limit)

(***************************************************************************)
(* C16: create_current_block_and_reset_transaction_buffer returns a block  *)
(* whose parent is the current heaviest block and whose transactions are   *)
(* the buffer in buffer order; afterwards the buffer is empty and the      *)
(* chain is unchanged.                                                     *)
(***************************************************************************)
C16_CreateTakesBufferAndResets ==
    [][last'.op = "create_current_block"
       => /\ last'.block.parent = FirstDeepest(chain)
          /\ last'.block.transactions = transactions
          /\ transactions' = <<>>
          /\ chain' = chain]_vars

C16_Witness ==
    /\ last.op = "create_current_block"
    /\ Len(last.buffer_before) = 2
    /\ last.block.transactions = last.buffer_before
    /\ last.block.parent = <<"1">>
    /\ transactions = <<>>

(***************************************************************************)
(* C17: sign(block) returns Some(block) exactly when the identifier of the *)
(* block was not a key of blocks before the call, and then the block is    *)
(* stored; when the identifier was known it returns None and leaves the    *)
(* chain unchanged.                                                        *)
(***************************************************************************)
C17_SignSomeIffUnknown ==
    [][last'.op = "sign"
       => /\ (last'.reply = "Some") <=> ~last'.id_known
          /\ last'.reply = "Some"
                => /\ last'.block.identifier \in DOMAIN chain'.blocks
                   /\ chain'.blocks[last'.block.identifier] = last'.block
          /\ last'.id_known => (last'.reply = "None" /\ chain' = chain)]_vars

C17_Witness ==
    /\ last.op = "sign"
    /\ last.id_known
    /\ last.same_value
    /\ last.reply = "None"
    /\ Len(last.block.transactions) = 1

(***************************************************************************)
(* C18: after handle(BlockPayload(b)) the buffer holds no transaction      *)
(* whose identifier occurs in b.transactions and keeps all others in their *)
(* order; the reply is BlockAccept when b was newly added and              *)
(* BlockDuplicated when b was already a child of its parent.               *)
(***************************************************************************)
C18_BlockPayloadPurgesBuffer ==
    [][last'.op = "BlockPayload"
       => LET ids == {last'.block.transactions[i].identifier :
                        i \in 1..Len(last'.block.transactions)}
          IN  /\ \A i \in 1..Len(transactions') : transactions'[i].identifier \notin ids
              /\ transactions' = SelectSeq(transactions, LAMBDA t : t.identifier \notin ids)
              /\ last'.is_child => last'.reply = "BlockDuplicated"
              /\ (~last'.is_child /\ ~last'.id_known)
                    => /\ last'.reply = "BlockAccept"
                       /\ last'.block.identifier \in DOMAIN chain'.blocks]_vars

C18_Witness ==
    /\ last.op = "BlockPayload"
    /\ last.reply = "BlockDuplicated"
    /\ Len(last.buffer_before) = 3
    /\ last.buffer_before[2].identifier = last.block.transactions[1].identifier
    /\ transactions = <<last.buffer_before[1], last.buffer_before[3]>>

\* the blocks from a block up to the child of genesis, through the parent links
RECURSIVE PathToGenesis(_, _)
PathToGenesis(c, id) ==
    IF id = c.genesis_identifier_hash
    THEN <<>>
    ELSE <<c.blocks[id]>> \o PathToGenesis(c, c.blocks[id].parent)

\* the blocks of the chain are genesis and the listed blocks, each a child of
\* its parent
ChainIsExactly(c, listed) ==
    /\ DOMAIN c.blocks = {c.genesis_identifier_hash} \cup {b.identifier : b \in listed}
    /\ \A b \in listed :
        /\ c.blocks[b.identifier] = b
        /\ b.parent \in DOMAIN c.adjacent_matrix
        /\ Contains(c.adjacent_matrix[b.parent], b.identifier)

(***************************************************************************)
(* C19: a Vote is counted only if a VoteClosed was met earlier in the walk *)
(* from the leaf to the child of genesis: on a path without VoteClosed no  *)
(* vote is counted, and for a leaf [Vote(voter 0, c1)] under a parent      *)
(* [VoteOpened, Vote(voter 0, c2), VoteClosed] the tally is one vote with  *)
(* the cipher text zero + c2.                                              *)
(***************************************************************************)
C19_VoteCountedOnlyAfterClose ==
    (~poisoned /\ last.op = "RequestTally") =>
        LET path == PathToGenesis(chain, FirstDeepest(chain))
            parent == TestBlock(<<"1">>, chain.genesis_identifier_hash, 1,
                        <<new_voting_opened, new_vote(0, "c2", TRUE, TRUE),
                          new_voting_closed>>)
            leaf == TestBlock(<<"2">>, <<"1">>, 2, <<new_vote(0, "c1", TRUE, TRUE)>>)
        IN  /\ (\A i \in 1..Len(path) : \A j \in 1..Len(path[i].transactions) :
                    path[i].transactions[j].trx_type # "VoteClosed")
                => last.tally.total_votes = 0
            /\ ChainIsExactly(chain, {parent, leaf})
                => last.tally = [total_votes |-> 1,
                                 cipher_text |-> ZeroCipherText (+) SetToBag({"c2"})]

(***************************************************************************)
(* C20: for a chain whose only block after genesis stores [VoteOpened,     *)
(* Vote(voter 0, c1), VoteClosed], the tally over the longest path is one  *)
(* vote with the cipher text zero + c1.                                    *)
(***************************************************************************)
C20_SingleBlockTally ==
    (/\ ~poisoned
     /\ last.op = "RequestTally"
     /\ ChainIsExactly(chain, {TestBlock(<<"1">>, chain.genesis_identifier_hash, 1,
                                  <<new_voting_opened, new_vote(0, "c1", TRUE, TRUE),
                                    new_voting_closed>>)}))
    => last.tally = [total_votes |-> 1,
                     cipher_text |-> ZeroCipherText (+) SetToBag({"c1"})]

C20_Witness ==
    /\ ~poisoned
    /\ last.op = "RequestTally"
    /\ last.tally.total_votes = 1
    /\ ChainIsExactly(chain, {TestBlock(<<"1">>, chain.genesis_identifier_hash, 1,
                                 <<new_voting_opened, new_vote(0, "c1", TRUE, TRUE),
                                   new_voting_closed>>)})

\* the transactions in the order of the bottom-up walk: the blocks from the
\* first deepest block to the child of genesis, each in stored order
RECURSIVE Flatten(_)
Flatten(blocks) ==
    IF blocks = <<>> THEN <<>> ELSE Head(blocks).transactions \o Flatten(Tail(blocks))

WalkOrder(c) == Flatten(PathToGenesis(c, FirstDeepest(c)))

\* is_voting_closed when transaction number k of the walk is visited
ClosedAt(walk, k) ==
    \/ SumCipherTextVisitorNew.is_voting_closed
    \/ \E j \in 1..(k - 1) : walk[j].trx_type = "VoteClosed"

\* the votes of the walk that pass the test of is_voting_closed
PassingVotes(walk) ==
    {k \in 1..Len(walk) : walk[k].trx_type = "Vote" /\ ClosedAt(walk, k)}

\* of these, the first one of each voter index
FirstPassingVotes(walk) ==
    {k \in PassingVotes(walk) :
        \A j \in PassingVotes(walk) :
            walk[j].data.voter_idx = walk[k].data.voter_idx => k <= j}

RECURSIVE SumOf(_, _)
SumOf(walk, ks) ==
    IF ks = {} THEN ZeroCipherText
    ELSE LET k == CHOOSE x \in ks : TRUE
         IN  SumOf(walk, ks \ {k}) (+) SetToBag({walk[k].data.cipher_text})

OpenedOn(walk) == \E k \in 1..Len(walk) : walk[k].trx_type = "VoteOpened"

(***************************************************************************)
(* C21: in every tally each voter index contributes at most one cipher     *)
(* text: the number of cipher texts added to the encryption of zero is     *)
(* total_votes, and when the voting was opened on the path total_votes is  *)
(* the number of distinct voter indices whose votes pass the test of       *)
(* is_voting_closed and the sum holds, for each of them, the cipher text   *)
(* of the first such vote met in the bottom-up walk.                       *)
(***************************************************************************)
C21_OneCipherTextPerVoter ==
    (~poisoned /\ last.op = "RequestTally") =>
        LET walk == WalkOrder(chain)
            first == FirstPassingVotes(walk)
        IN  /\ BagCardinality(last.tally.cipher_text) = last.tally.total_votes + 1
            /\ OpenedOn(walk) =>
                /\ last.tally.total_votes
                      = Cardinality({walk[k].data.voter_idx : k \in PassingVotes(walk)})
                /\ last.tally.cipher_text = SumOf(walk, first)

\* two voters counted, one of them with a second vote on the path
C21_Witness ==
    /\ ~poisoned
    /\ last.op = "RequestTally"
    /\ last.tally.total_votes = 2
    /\ LET walk == WalkOrder(chain)
       IN  Cardinality(PassingVotes(walk)) > Cardinality(FirstPassingVotes(walk))

(***************************************************************************)
(* C22: when no VoteOpened transaction lies on the longest path, the chain *)
(* holding only genesis included, the tally is zero votes with the         *)
(* encryption of zero, whatever Vote and VoteClosed transactions the path  *)
(* holds, and the reply is a RequestTallyPayload, not an error.            *)
(***************************************************************************)
C22_NotOpenedGivesZero ==
    (~poisoned /\ last.op = "RequestTally" /\ ~OpenedOn(WalkOrder(chain))) =>
        /\ last.tally = [total_votes |-> 0, cipher_text |-> ZeroCipherText]
        /\ last.reply = "RequestTallyPayload"

\* a path with a Vote and a VoteClosed and without VoteOpened
C22_Witness ==
    /\ ~poisoned
    /\ last.op = "RequestTally"
    /\ LET walk == WalkOrder(chain)
       IN  /\ ~OpenedOn(walk)
           /\ \E k \in 1..Len(walk) : walk[k].trx_type = "Vote"
           /\ \E k \in 1..Len(walk) : walk[k].trx_type = "VoteClosed"
    /\ last.tally = [total_votes |-> 0, cipher_text |-> ZeroCipherText]

\* the votes stored in the blocks of the path that are not older than every
\* block holding VoteOpened; path[1] is the newest block
VotesNotBeforeOpening(path) ==
    LET opened == {i \in 1..Len(path) :
                     \E j \in 1..Len(path[i].transactions) :
                        path[i].transactions[j].trx_type = "VoteOpened"}
    IN  UNION {{path[i].transactions[j] :
                    j \in {j \in 1..Len(path[i].transactions) :
                                path[i].transactions[j].trx_type = "Vote"}} :
               i \in {i \in 1..Len(path) : \E o \in opened : i <= o}}

(***************************************************************************)
(* C23: the tally counts only votes of the longest path that are not older *)
(* than the VoteOpened sentinel: a Vote stored in a block closer to        *)
(* genesis than the block holding VoteOpened adds neither to total_votes   *)
(* nor to the sum, and neither does a vote of a side branch.               *)
(***************************************************************************)
C23_OnlyVotesSinceOpening ==
    (~poisoned /\ last.op = "RequestTally") =>
        LET votes == VotesNotBeforeOpening(PathToGenesis(chain, FirstDeepest(chain)))
        IN  /\ last.tally.total_votes <= Cardinality({t.data.voter_idx : t \in votes})
            /\ \A c \in BagToSet(last.tally.cipher_text) :
                    c = "zero" \/ \E t \in votes : t.data.cipher_text = c

(***************************************************************************)
(* C24: handle(FindTransaction(id)) replies FindTransactionResponse with   *)
(* a transaction of identifier id if and only if some block on the longest *)
(* path stores a transaction with that identifier, at any position of its  *)
(* transaction list, and with None otherwise; the chain and the buffer are *)
(* unchanged.                                                              *)
(***************************************************************************)
C24_FindTransactionOnPath ==
    [][(~poisoned /\ last'.op = "FindTransaction") =>
        LET walk == WalkOrder(chain)
        IN  /\ last'.reply = "FindTransactionResponse"
            /\ (last'.transaction # NoTransaction)
                  <=> \E k \in 1..Len(walk) : walk[k].identifier = last'.identifier
            /\ last'.transaction # NoTransaction
                  => last'.transaction.identifier = last'.identifier
            /\ chain' = chain
            /\ transactions' = transactions]_vars

\* the tally of a chain, from the transactions of its longest path
TallyOf(c) ==
    LET walk == WalkOrder(c)
        first == FirstPassingVotes(walk)
    IN  IF OpenedOn(walk)
        THEN [total_votes |-> Cardinality(first), cipher_text |-> SumOf(walk, first)]
        ELSE [total_votes |-> 0, cipher_text |-> ZeroCipherText]

(***************************************************************************)
(* C25: handle_rpc follows its table: TransactionPayload(t) gives the pair *)
(* (TransactionAccept(t.identifier), TransactionPayload(t)), OpenVote      *)
(* gives (OpenVoteAccept, OpenVote), CloseVote gives (CloseVoteAccept,     *)
(* CloseVote), ChainRequest gives a ChainResponse with the current chain,  *)
(* RequestTally gives a RequestTallyPayload with the tally of the chain,   *)
(* and every other message gives None and leaves chain and buffer          *)
(* unchanged.                                                              *)
(***************************************************************************)
C25_HandleRpcTable ==
    [][(last'.op = "handle_rpc") =>
        LET m == last'.message
        IN  CASE m.kind = "TransactionPayload" ->
                    /\ last'.response = TransactionAccept(m.transaction.identifier)
                    /\ last'.broadcast = m
              [] m.kind = "OpenVote" ->
                    /\ last'.response = Message("OpenVoteAccept")
                    /\ last'.broadcast = Message("OpenVote")
              [] m.kind = "CloseVote" ->
                    /\ last'.response = Message("CloseVoteAccept")
                    /\ last'.broadcast = Message("CloseVote")
              [] m.kind = "ChainRequest" ->
                    /\ last'.response = ChainResponse(chain)
                    /\ chain' = chain
              [] m.kind = "RequestTally" ->
                    /\ last'.response.kind = "RequestTallyPayload"
                    /\ last'.response.tally = TallyOf(chain)
              [] OTHER ->
                    /\ last'.response = Nothing
                    /\ last'.broadcast = Nothing
                    /\ chain' = chain
                    /\ transactions' = transactions]_vars

\* a tally was requested over RPC for a chain with a counted vote, while the
\* buffer held a transaction
C25_Witness ==
    /\ last.op = "handle_rpc"
    /\ last.message.kind = "RequestTally"
    /\ last.response.tally.total_votes = 1
    /\ Len(transactions) > 0

(***************************************************************************)
(* C28: handle leaves chain and buffer unchanged and gives the fixed reply *)
(* for the stateless messages: Ping gives Pong; Pong, every Accept         *)
(* message, BlockDuplicated, RequestTally and None give None; ChainRequest *)
(* gives a ChainResponse carrying the current chain.  The message None is  *)
(* a no-op in handle_rpc as well.                                          *)
(***************************************************************************)
C28_StatelessMessages ==
    [][LET m == last'.message
       IN  /\ (last'.op = "handle"
                /\ m.kind \in {"Ping", "Pong", "TransactionAccept", "BlockAccept",
                                "ChainAccept", "OpenVoteAccept", "CloseVoteAccept",
                                "BlockDuplicated", "RequestTally", "None",
                                "ChainRequest"})
               => /\ chain' = chain
                  /\ transactions' = transactions
                  /\ poisoned' = poisoned
                  /\ last'.response = CASE m.kind = "Ping" -> Message("Pong")
                                         [] m.kind = "ChainRequest" -> ChainResponse(chain)
                                         [] OTHER -> Message("None")
           /\ (last'.op = "handle_rpc" /\ m.kind = "None")
               => /\ chain' = chain
                  /\ transactions' = transactions
                  /\ last'.response = Nothing
                  /\ last'.broadcast = Nothing]_vars

\* a Ping was answered by a node with a block beyond genesis and a buffered
\* transaction
C28_Witness ==
    /\ last.op = "handle"
    /\ last.message.kind = "Ping"
    /\ last.response = Message("Pong")
    /\ Cardinality(DOMAIN chain.blocks) > 1
    /\ Len(transactions) > 0

\* the step in which thread t writes the message thread[t].broadcast to the
\* peer thread[t].peer
Writes(t) ==
    /\ thread[t].pc = "write"
    /\ thread'[t].pc \in {"read", "next_peer"}

(***************************************************************************)
(* C26: an RPC RequestTally, and likewise an RPC ChainRequest, is a pure   *)
(* local read: while the RPC listener handles it, it writes no message to  *)
(* a peer, and its call of handle_rpc changes neither the chain nor the    *)
(* buffer.                                                                 *)
(***************************************************************************)
C26_TallyRequestIsLocalRead ==
    [][thread["listen_rpc"].request.kind \in {"RequestTally", "ChainRequest"} =>
        /\ ~Writes("listen_rpc")
        /\ (thread["listen_rpc"].pc = "handle" /\ thread'["listen_rpc"].pc = "drop")
            => (chain' = chain /\ transactions' = transactions)]_vars

(***************************************************************************)
(* C27: an invalid Vote received on the RPC interface is not propagated:   *)
(* the RPC listener writes a TransactionPayload to a peer only for a       *)
(* transaction that is valid.                                              *)
(***************************************************************************)
C27_InvalidVoteNotBroadcast ==
    [][(Writes("listen_rpc") /\ thread["listen_rpc"].broadcast.kind = "TransactionPayload")
        => IsValid(thread["listen_rpc"].broadcast.transaction, genesis)]_vars

(***************************************************************************)
(* C29: no thread holds the protocol mutex or the peer mutex while it      *)
(* sleeps or is in a network operation.                                    *)
(***************************************************************************)
C29_NoLockAcrossSuspension ==
    \A t \in Threads :
        (protocol_mutex = t \/ peers_mutex = t) => thread[t].pc \notin SuspensionPoints

\* thread t waits for the reply of a peer that will never reply
Stuck(t) == thread[t].pc = "read" /\ thread[t].peer \in silent

\* the minter cannot go on: it is stuck itself, or it waits for the peer mutex
\* that a stuck thread holds
MinterStalled ==
    \/ Stuck("sign")
    \/ /\ thread["sign"].pc = "broadcast"
       /\ \E t \in Threads : peers_mutex = t /\ Stuck(t)

(***************************************************************************)
(* C30: a peer that accepts a connection and never replies cannot stall    *)
(* the minter: while an outbound exchange with it is blocked, in the RPC   *)
(* broadcast or in the block broadcast, the minter can go on.              *)
(***************************************************************************)
C30_StuckPeerDoesNotStallMinter ==
    (Stuck("listen_rpc") \/ Stuck("sign")) => ~MinterStalled

(***************************************************************************)
(* C31: a failure of one inbound connection (a read error, or a connection *)
(* closed before any byte was sent) only abandons that exchange: the peer  *)
(* listener and the RPC listener never leave their accept loop because of  *)
(* it.                                                                     *)
(***************************************************************************)
C31_InboundFailureKeepsListening ==
    \A t \in {"listen", "listen_rpc"} : thread[t].pc # "returned"

(***************************************************************************)
(* C32: in a broadcast (of the RPC listener, of the minter) a step of the  *)
(* exchange with one peer, be it connect, write or read, whatever its      *)
(* outcome, leaves the thread in the loop with the peers it still has to   *)
(* serve.                                                                  *)
(***************************************************************************)
C32_OutboundFailureIsSkipped ==
    [][\A t \in {"listen_rpc", "sign"} :
        (thread[t].pc \in {"connect", "write", "read"} /\ thread'[t] # thread[t])
            => /\ thread'[t].pc \in {"write", "read", "next_peer"}
               /\ thread'[t].left = thread[t].left
               /\ peers_mutex' = t]_vars

(***************************************************************************)
(* C38: handle is total: whatever message a peer sends, the call returns   *)
(* and the protocol mutex is not poisoned by it.                           *)
(***************************************************************************)
C38_HandleIsTotal ==
    last.op = "handle" => (last.reply = "ok" /\ ~poisoned)

TransactionIdentifiers(block) ==
    {block.transactions[i].identifier : i \in 1..Len(block.transactions)}

\* the blocks on the parent links from the first deepest block to the child of
\* genesis
HeaviestPath(c) == PathToGenesis(c, FirstDeepest(c))

(***************************************************************************)
(* C39: no transaction identifier occurs in two different blocks of the    *)
(* heaviest path of the node.                                              *)
(***************************************************************************)
C39_NoTransactionTwiceOnPath ==
    ~poisoned =>
        LET path == HeaviestPath(chain)
        IN  \A i, j \in 1..Len(path) :
                i # j => TransactionIdentifiers(path[i]) \cap TransactionIdentifiers(path[j]) = {}

(***************************************************************************)
(* C34: the block the minter signs, appends and hands to the broadcast     *)
(* holds no transaction that a block of its own chain on the same parent   *)
(* (the block of the leader of the epoch, arrived before the sign step)    *)
(* already holds.                                                          *)
(***************************************************************************)
C34_SignedBlockDuplicatesNothing ==
    [][(pc = "sign" /\ last'.op = "sign" /\ last'.reply = "Some")
        => \A id \in DOMAIN chain.blocks :
            chain.blocks[id].parent = current_block.parent
                => TransactionIdentifiers(chain.blocks[id])
                   \cap TransactionIdentifiers(current_block) = {}]_vars

(***************************************************************************)
(* C35: every block the minter signs and appends has a timestamp at least  *)
(* block_period seconds after the timestamp of its parent block.           *)
(***************************************************************************)
C35_MintedBlockAfterBlockPeriod ==
    [][(pc = "sign" /\ last'.op = "sign" /\ last'.reply = "Some"
        /\ current_block.parent \in DOMAIN chain.blocks)
        => current_block.timestamp
           >= chain.blocks[current_block.parent].timestamp + genesis.block_period]_vars

\* the sealer of the genesis is leader or co-leader on chain c
HasRole(c) ==
    \/ IsLeader(c, genesis.signer_index, genesis.signer_count)
    \/ IsCoLeader(c, genesis.signer_index, genesis.signer_count, genesis.signer_limit)

(***************************************************************************)
(* C36: when the minter clears the transaction buffer, the node was        *)
(* neither leader nor co-leader in some chain state of that tick, that is, *)
(* the height never decreasing, on a chain of some height up to the one it *)
(* has now; and the minter then goes back to sleep without a candidate.    *)
(***************************************************************************)
C36_BufferClearedOnlyWithoutRole ==
    [][(pc = "reset" /\ last'.op = "reset_transaction_buffer")
        => /\ \E h \in 0..GetCurrentBlockNumber(chain) :
                ~HasRole(RemoteChain(GenesisHash(genesis), 0, h))
           /\ pc' = "sleep"
           /\ current_block' = current_block]_vars

\* sealer i writes its block to the running sealer j in this step
Delivers(i, j) ==
    /\ sealers[i].pc = "broadcast"
    /\ j \in sealers[i].left
    /\ j \notin sealers'[i].left
    /\ sealers[j].state = "on"

(***************************************************************************)
(* C40: two nodes constructed from the same genesis configuration have the *)
(* same genesis block identifier, whenever they were started, and the      *)
(* first block one of them minted (its parent is the own genesis block) is *)
(* a child of genesis on the other node once that node has received it.    *)
(***************************************************************************)
C40_SameGenesisBlock ==
    [][\A i, j \in SealerIndices :
        /\ (sealers[i].state # "off" /\ sealers[j].state # "off")
            => sealers[i].chain.genesis_identifier_hash
               = sealers[j].chain.genesis_identifier_hash
        /\ (Delivers(i, j)
            /\ sealers[i].current_block.parent = sealers[i].chain.genesis_identifier_hash)
            => Contains(sealers'[j].chain.adjacent_matrix[
                            sealers'[j].chain.genesis_identifier_hash],
                        sealers[i].current_block.identifier)]_vars

(***************************************************************************)
(* The network of sealers that were all started in one second, under fair  *)
(* scheduling: the clock advances, every minter thread runs its next       *)
(* statement, and every exchange of a broadcast completes (messages are    *)
(* delivered).                                                             *)
(***************************************************************************)
\* every sealer was started in second 0: the network on a common chain
NetLiveInit ==
    /\ NodeInit
    /\ sealers = [i \in SealerIndices |->
                    [SealerOff EXCEPT !.state = "on",
                                      !.chain = ChainNew(GenesisHash(SealerGenesis(i)), 0)]]

NetLiveNext ==
    \/ NetTick
    \/ \E i \in SealerIndices : NetMinter(i)
    \/ \E i, j \in SealerIndices : NetDeliver(i, j)

NetLiveSpec ==
    /\ NetLiveInit
    /\ [][NetLiveNext]_vars
    /\ WF_vars(NetTick)
    /\ \A i \in SealerIndices :
        /\ WF_vars(NetMinter(i))
        /\ WF_vars(\E j \in SealerIndices : NetDeliver(i, j))

\* every sealer runs its minter, all on one genesis block
AllSealersRunning ==
    \A i, j \in SealerIndices :
        /\ sealers[i].state = "on"
        /\ sealers[i].chain.genesis_identifier_hash
           = sealers[j].chain.genesis_identifier_hash

\* the heaviest height is h on every sealer
CommonHeight(h) == \A i \in SealerIndices : HeaviestHeight(sealers[i].chain) = h

\* the block period of the heaviest block of every sealer ends within the
\* seconds the clock of the model has
BlockPeriodPasses ==
    \A i \in SealerIndices :
        GetCurrentBlockTimestamp(sealers[i].chain) + genesis.block_period <= MaxTime

\* two sealers are at different heaviest heights
HeightsDiffer ==
    \E i, j \in SealerIndices :
        HeaviestHeight(sealers[i].chain) # HeaviestHeight(sealers[j].chain)

====
